---- MODULE Spec2Model ----
(***************************************************************************)
(* The strim RTMP ingest server (src/strim/src/server.rs, main.rs) as a    *)
(* state machine: the connection slab of the event loop, the Server struct *)
(* (client slab, channel map, connection_gc, push client), the             *)
(* server_results of the bytes_received call in progress, and the          *)
(* background cluster-API tasks spawned with tokio::spawn.                  *)
(* The strim operator (src/operator/src/strims/reconcile.rs, actions.rs,   *)
(* util/patch.rs) is the second state machine: the replicas' leader loop,  *)
(* their controller tasks and the reconciles these run against the Strim   *)
(* records and pods of the cluster API.                                    *)
(***************************************************************************)
EXTENDS Integers, Sequences, FiniteSets, TLC

\* ---------------------------------------------------------------- bounds
MaxConns == 2        \* connections open at once
MaxRouteConns == 3   \* the same, in the routing specification
MaxEvents == 3       \* session events handled in one run
MaxBatch == 2        \* session events returned by one handle_input call
MaxRouteEvents == 4  \* session events in one run of the routing specification
MaxJoinEvents == 6   \* the same, in the joining specification
MaxStreamId == 2     \* stream ids of play requests are 1..MaxStreamId
MaxReplicas == 2     \* operator replicas
MaxTicks == 4        \* renew intervals that elapse in one run
MaxSpecs == 2        \* distinct values of a Strim's spec
MaxFileEvents == 3   \* uploader: events the file watcher reports
MaxQueued == 2       \* uploader: paths the channel holds (1024 in run())
MaxPayloadLen == 3   \* bytes of a payload to classify

\* Option<T>: None is the empty tuple and Some(x) the tuple of x alone.
None == << >>
Some(x) == << x >>

\* HashMap<K, V> and the entries of a Slab<V>: functions on the keys present.
EmptyMap == << >>
MapInsert(map, key, value) ==
    [k \in DOMAIN map \cup {key} |-> IF k = key THEN value ELSE map[k]]
MapRemove(map, key) == [k \in DOMAIN map \ {key} |-> map[k]]

Tokens == 0 .. (MaxRouteConns - 1)
StreamIds == 1 .. MaxStreamId

\* get_app_options: the push source is app "live", stream "stream".
PushApp == "live"
PushSourceStream == "stream"
Keys == {"stream", "abc"}
\* The (app, stream key) pairs of publish requests.
PublishTargets == { << "live", "stream" >>, << "live", "abc" >>,
                    << "vod", "stream" >> }

\* Payloads of inbound audio/video data, as byte sequences.
\* 23 = 0x17, 39 = 0x27, 175 = 0xaf.
Payloads == { <<23, 0>>, <<23, 1>>, <<39, 1>>, <<175, 0>> }

\* Payloads to classify: every byte sequence of up to MaxPayloadLen bytes
\* over 0x00, 0x01, 0x17, 0x27 and 0xaf.
PayloadBytes == { 0, 1, 23, 39, 175 }
PayloadInputs ==
    UNION { [1 .. n -> PayloadBytes] : n \in 0 .. MaxPayloadLen }

VARIABLES
    server,          \* the Server struct
    connections,     \* main.rs: Slab<Connection>, each with the packets
                     \* enqueued on it
    reading,         \* token whose handle_read_bytes call is in progress
    server_results,  \* Vec<ServerResult> of the bytes_received in progress
    tasks,           \* tokio tasks spawned and not yet run
    records,         \* names of the Strim records held by the cluster API
    panicked,        \* the process hit a panic (unwrap / invalid slab key)
    hist,            \* history: counters and the last handler that ran
    event_loop,      \* main.rs: the cancellation token and the result of
                     \* run_server once its loop has ended
    classified,      \* server.rs: a payload and what the three classifiers
                     \* answer for it
    clock,           \* operator: seconds since the replicas started
    lease,           \* operator: the Lease object "strim-controller-lock"
    replicas,        \* operator: run() of each replica, with its controller
                     \* task and the reconcile that task has in progress
    strims,          \* operator: the Strim records of the cluster API
    pods,            \* operator: the pods of the cluster API
    cancel,          \* uploader: the cancellation token is cancelled
    watcher,         \* uploader: the file watcher and the events it saw
    rx,              \* uploader: the paths queued in the channel
    disk,            \* uploader: the files below the HLS directory
    bucket,          \* uploader: the objects of the bucket, by key
    uploader         \* uploader: the main loop of run()

ingest_vars == << server, connections, reading, server_results, tasks, records,
                  panicked, hist, event_loop, classified >>
operator_vars == << clock, lease, replicas, strims, pods >>
uploader_vars == << cancel, watcher, rx, disk, bucket, uploader >>
vars == << ingest_vars, operator_vars, uploader_vars >>

\* ------------------------------------------------------------------ slab
\* slab::Slab hands out the most recently vacated key first, else len.
EmptySlab == [len |-> 0, free |-> << >>]

SlabNextKey(slab) == IF slab.free = << >> THEN slab.len ELSE Head(slab.free)

SlabInsert(slab) ==
    IF slab.free = << >> THEN [slab EXCEPT !.len = @ + 1]
    ELSE [slab EXCEPT !.free = Tail(@)]

SlabRemove(slab, key) == [slab EXCEPT !.free = << key >> \o @]

\* --------------------------------------------------------- classification
is_video_sequence_header(data) ==
    Len(data) >= 2 /\ data[1] = 23 /\ data[2] = 0

is_audio_sequence_header(data) ==
    Len(data) >= 2 /\ data[1] = 175 /\ data[2] = 0

\* As is_video_keyframe, looking at the first byte only.
is_video_keyframe_by_first_byte(data) ==
    Len(data) >= 2 /\ data[1] = 23

is_video_keyframe(data) ==
    Len(data) >= 2 /\ data[1] = 23 /\ data[2] # 0

\* ---------------------------------------------------------------- records
Waiting == [type |-> "Waiting", stream_key |-> "", stream_id |-> 0]
Publishing(stream_key) ==
    [type |-> "Publishing", stream_key |-> stream_key, stream_id |-> 0]
Watching(stream_key, stream_id) ==
    [type |-> "Watching", stream_key |-> stream_key, stream_id |-> stream_id]

\* The ServerSession is the external library's; the model keeps of it the
\* stream keys whose publish request it has accepted and not finished.
NewInboundClient(connection_id) ==
    [ session |-> [publishing |-> {}],
      current_action |-> Waiting,
      connection_id |-> connection_id,
      has_received_video_keyframe |-> FALSE ]

get_active_stream_id(client) ==
    IF client.current_action.type = "Watching"
    THEN Some(client.current_action.stream_id)
    ELSE None

NewMediaChannel ==
    [ publishing_client_id |-> None,
      watching_client_ids |-> {},
      metadata |-> None,
      video_sequence_header |-> None,
      audio_sequence_header |-> None ]

\* A framed packet. kind names what the session serialized: a reply
\* ("initial", "connection_accepted", "publish_accepted", "play_accepted"),
\* "metadata", "video", "audio", or what the push ClientSession produced
\* ("push_..."). data is a byte sequence (for metadata, the tuple of the
\* metadata's identity).
\* key and seq are history fields: the channel the packet was routed on
\* and the arrival number of the publisher's packet (0 for packets built
\* from the channel's stored state).
Packet(kind, stream_id, data, timestamp, key, seq) ==
    [ kind |-> kind, stream_id |-> stream_id, data |-> data,
      timestamp |-> timestamp, key |-> key, seq |-> seq ]

Response(what) == Packet(what, 0, << >>, 0, "", 0)

OutboundPacket(target_connection_id, packet) ==
    [ type |-> "OutboundPacket",
      target_connection_id |-> target_connection_id,
      packet |-> packet ]

DisconnectConnection(connection_id) ==
    [ type |-> "DisconnectConnection", connection_id |-> connection_id ]

StartPushing == [ type |-> "StartPushing" ]

\* Server::new; the target is the configured object store, if any.
NewServer(target) ==
    [ clients |-> EmptyMap,
      clients_slab |-> EmptySlab,
      connection_to_client_map |-> EmptyMap,
      connection_gc |-> EmptyMap,
      channels |-> EmptyMap,
      push_client |-> [ connection_id |-> None, session |-> FALSE,
                        state |-> "Inactive" ],
      target |-> target ]

\* ------------------------------------------------ Server: channel upkeep
\* A world w is [server, tasks, server_results]: what a Server method can
\* change (self, the tasks it spawns, the results vector it is handed).

\* Mutant: the metadata outlives the publisher.
publishing_ended_keeps_metadata(s, stream_key) ==
    IF stream_key \notin DOMAIN s.channels THEN s
    ELSE [s EXCEPT !.channels[stream_key].publishing_client_id = None]

publishing_ended(s, stream_key) ==
    IF stream_key \notin DOMAIN s.channels THEN s
    ELSE [s EXCEPT !.channels[stream_key].publishing_client_id = None,
                   !.channels[stream_key].metadata = None]

\* Mutant: the end of one play empties the watcher set.
play_ended_for_all(s, client_id, stream_key) ==
    IF stream_key \notin DOMAIN s.channels THEN s
    ELSE [s EXCEPT !.channels[stream_key].watching_client_ids = {}]

play_ended(s, client_id, stream_key) ==
    IF stream_key \notin DOMAIN s.channels THEN s
    ELSE [s EXCEPT !.channels[stream_key].watching_client_ids =
                        @ \ {client_id}]

\* pull_client is never registered (register_pull_client has no caller),
\* so the pull branch of the method is not taken.
notify_connection_closed(w, connection_id) ==
    LET s == w.server
        tracked == connection_id \in DOMAIN s.connection_gc
        s1 == [s EXCEPT !.connection_gc = MapRemove(@, connection_id)]
        tasks1 == IF tracked
                  THEN w.tasks \cup {[op |-> "delete",
                                      name |-> s.connection_gc[connection_id]]}
                  ELSE w.tasks
        client_id == s1.connection_to_client_map[connection_id]
        client == s1.clients[client_id]
        s2 == [s1 EXCEPT
                 !.connection_to_client_map = MapRemove(@, connection_id),
                 !.clients = MapRemove(@, client_id),
                 !.clients_slab = SlabRemove(@, client_id)]
        s3 == IF connection_id \notin DOMAIN s1.connection_to_client_map
              THEN s1
              ELSE CASE client.current_action.type = "Publishing" ->
                          publishing_ended(s2, client.current_action.stream_key)
                     [] client.current_action.type = "Watching" ->
                          play_ended(s2, client_id,
                                     client.current_action.stream_key)
                     [] OTHER -> s2
    IN [w EXCEPT !.server = s3, !.tasks = tasks1]

\* ------------------------------------------------ Server: inbound events
handle_connection_requested(w, requested_connection_id, accept_ok) ==
    IF accept_ok
    THEN [w EXCEPT !.server_results = Append(@,
              OutboundPacket(requested_connection_id,
                             Response("connection_accepted")))]
    ELSE [w EXCEPT !.server_results = Append(@,
              DisconnectConnection(requested_connection_id))]

\* The record name is "ffmpeg-" + the first 8 hex digits of
\* sha256(stream_key, pod_ip, entropy); entropy is a fresh random u64, and
\* the model takes the names of distinct (stream_key, entropy) as distinct.
pod_name(stream_key, entropy) == << "ffmpeg", stream_key, entropy >>

\* Mutant: the publisher of a channel is not looked at.
StreamHasPublisherIgnored(s, stream_key) == FALSE

\* Lines 644-646: the channel exists and has a publishing_client_id.
StreamHasPublisher(s, stream_key) ==
    /\ stream_key \in DOMAIN s.channels
    /\ s.channels[stream_key].publishing_client_id # None

\* Mutant: a rejected request is dropped without a result.
RejectPublishRequestSilently(w, requested_connection_id) == w

\* Lines 647-662: the request is rejected and the method returns.
RejectPublishRequest(w, requested_connection_id) ==
    [w EXCEPT !.server_results = Append(@,
         DisconnectConnection(requested_connection_id))]

\* Mutant: the application name of the publish is not compared with
\* push_app.
handle_publish_requested_any_app(w, requested_connection_id, app_name, stream_key, accept_ok, entropy) ==
    LET s == w.server
        present == stream_key \in DOMAIN s.channels
    IN
    IF StreamHasPublisher(s, stream_key)
    THEN RejectPublishRequest(w, requested_connection_id)
    ELSE
    LET client_id == s.connection_to_client_map[requested_connection_id]
        ch0 == IF present THEN s.channels[stream_key] ELSE NewMediaChannel
        s1 == [s EXCEPT
                 !.clients[client_id].current_action = Publishing(stream_key),
                 !.channels = MapInsert(@, stream_key,
                      [ch0 EXCEPT !.publishing_client_id = Some(client_id)]),
                 !.clients[client_id].session.publishing =
                      IF accept_ok THEN @ \cup {stream_key} ELSE @]
        start == /\ s1.push_client.state = "Inactive"
                 /\ stream_key = PushSourceStream
        s2 == IF start
              THEN [s1 EXCEPT !.push_client.state = "WaitingForConnection"]
              ELSE s1
        w1 == IF ~accept_ok
              THEN [w EXCEPT !.server = s1,
                             !.server_results = Append(@,
                                 DisconnectConnection(requested_connection_id))]
              ELSE [w EXCEPT !.server = s2,
                             !.server_results = @
                                 \o (IF start THEN << StartPushing >> ELSE << >>)
                                 \o << OutboundPacket(requested_connection_id,
                                          Response("publish_accepted")) >>]
        name == pod_name(stream_key, entropy)
    IN
    \* lines 726-819 follow the match on accept_result whatever its arm
    IF ~w1.server.target THEN w1
    ELSE [w1 EXCEPT !.server.connection_gc =
                        MapInsert(@, requested_connection_id, name),
                    !.tasks = @ \cup {[op |-> "create", name |-> name]}]

\* Lines 595-820. accept_ok is the outcome of accept_request; lines
\* 700-717 start the push when the push client is Inactive and the
\* publish is for (push_app, push_source_stream).
handle_publish_requested(w, requested_connection_id, app_name, stream_key, accept_ok, entropy) ==
    LET s == w.server
        present == stream_key \in DOMAIN s.channels
    IN
    IF StreamHasPublisher(s, stream_key)
    THEN RejectPublishRequest(w, requested_connection_id)
    ELSE
    LET client_id == s.connection_to_client_map[requested_connection_id]
        ch0 == IF present THEN s.channels[stream_key] ELSE NewMediaChannel
        s1 == [s EXCEPT
                 !.clients[client_id].current_action = Publishing(stream_key),
                 !.channels = MapInsert(@, stream_key,
                      [ch0 EXCEPT !.publishing_client_id = Some(client_id)]),
                 !.clients[client_id].session.publishing =
                      IF accept_ok THEN @ \cup {stream_key} ELSE @]
        start == /\ s1.push_client.state = "Inactive"
                 /\ app_name = PushApp
                 /\ stream_key = PushSourceStream
        s2 == IF start
              THEN [s1 EXCEPT !.push_client.state = "WaitingForConnection"]
              ELSE s1
        w1 == IF ~accept_ok
              THEN [w EXCEPT !.server = s1,
                             !.server_results = Append(@,
                                 DisconnectConnection(requested_connection_id))]
              ELSE [w EXCEPT !.server = s2,
                             !.server_results = @
                                 \o (IF start THEN << StartPushing >> ELSE << >>)
                                 \o << OutboundPacket(requested_connection_id,
                                          Response("publish_accepted")) >>]
        name == pod_name(stream_key, entropy)
    IN
    \* lines 726-819 follow the match on accept_result whatever its arm
    IF ~w1.server.target THEN w1
    ELSE [w1 EXCEPT !.server.connection_gc =
                        MapInsert(@, requested_connection_id, name),
                    !.tasks = @ \cup {[op |-> "create", name |-> name]}]

\* Mutant: the audio sequence header is sent before the video one.
PlayResultsAudioFirst(channel, stream_key, stream_id) ==
    LET metadata == IF channel.metadata = None THEN << >>
                    ELSE << Packet("metadata", stream_id,
                                   << channel.metadata[1] >>, 0,
                                   stream_key, 0) >>
        video == IF channel.video_sequence_header = None THEN << >>
                 ELSE << Packet("video", stream_id,
                                channel.video_sequence_header[1], 0,
                                stream_key, 0) >>
        audio == IF channel.audio_sequence_header = None THEN << >>
                 ELSE << Packet("audio", stream_id,
                                channel.audio_sequence_header[1], 0,
                                stream_key, 0) >>
    IN << Response("play_accepted") >> \o metadata \o audio \o video

\* Lines 869-960: the accept results, then the channel's metadata, video
\* sequence header and audio sequence header, the headers at timestamp 0.
PlayResults(channel, stream_key, stream_id) ==
    LET metadata == IF channel.metadata = None THEN << >>
                    ELSE << Packet("metadata", stream_id,
                                   << channel.metadata[1] >>, 0,
                                   stream_key, 0) >>
        video == IF channel.video_sequence_header = None THEN << >>
                 ELSE << Packet("video", stream_id,
                                channel.video_sequence_header[1], 0,
                                stream_key, 0) >>
        audio == IF channel.audio_sequence_header = None THEN << >>
                 ELSE << Packet("audio", stream_id,
                                channel.audio_sequence_header[1], 0,
                                stream_key, 0) >>
    IN << Response("play_accepted") >> \o metadata \o video \o audio

\* ok = FALSE: accept_request, send_metadata, send_video_data or
\* send_audio_data returned Err; every such arm pushes DisconnectConnection
\* alone (the accept results collected so far are dropped).
handle_play_requested(w, requested_connection_id, stream_key, stream_id, ok) ==
    LET s == w.server
        client_id == s.connection_to_client_map[requested_connection_id]
        ch0 == IF stream_key \in DOMAIN s.channels
               THEN s.channels[stream_key] ELSE NewMediaChannel
        channel == [ch0 EXCEPT !.watching_client_ids = @ \cup {client_id}]
        s1 == [s EXCEPT
                 !.clients[client_id].current_action =
                      Watching(stream_key, stream_id),
                 !.channels = MapInsert(@, stream_key, channel)]
        results == PlayResults(channel, stream_key, stream_id)
    IN
    IF ~ok
    THEN [w EXCEPT !.server = s1,
                   !.server_results = Append(@,
                       DisconnectConnection(requested_connection_id))]
    ELSE [w EXCEPT !.server = s1,
                   !.server_results = @ \o
                       [i \in 1 .. Len(results) |->
                           OutboundPacket(requested_connection_id, results[i])]]

\* The enumerations of a set: a HashSet is iterated in no fixed order.
Orders(S) ==
    { o \in [1 .. Cardinality(S) -> S] :
        \A i, j \in 1 .. Cardinality(S) : i # j => o[i] # o[j] }

\* The loop over channel.watching_client_ids of handle_metadata_received;
\* fails holds the clients whose send_metadata returns Err.
RECURSIVE SendMetadataToWatchers(_, _, _, _, _)
SendMetadataToWatchers(w, order, stream_key, metadata, fails) ==
    IF order = << >> THEN w
    ELSE
    LET client_id == Head(order)
        client == w.server.clients[client_id]
        rest == Tail(order)
    IN
    IF client_id \notin DOMAIN w.server.clients
    THEN SendMetadataToWatchers(w, rest, stream_key, metadata, fails)
    ELSE IF get_active_stream_id(client) = None
    THEN SendMetadataToWatchers(w, rest, stream_key, metadata, fails)
    ELSE
    LET result ==
            IF client_id \in fails
            THEN DisconnectConnection(client.connection_id)
            ELSE OutboundPacket(client.connection_id,
                     Packet("metadata", get_active_stream_id(client)[1],
                            << metadata >>, 0, stream_key, 0))
    IN SendMetadataToWatchers(
           [w EXCEPT !.server_results = Append(@, result)],
           rest, stream_key, metadata, fails)

handle_metadata_received(w, stream_key, metadata, order, fails) ==
    IF stream_key \notin DOMAIN w.server.channels THEN w
    ELSE SendMetadataToWatchers(
             [w EXCEPT !.server.channels[stream_key].metadata =
                           Some(metadata)],
             order, stream_key, metadata, fails)

\* Mutant: every packet goes to every watcher.
should_send_always(client, data_type, data) == TRUE

should_send_to_client(client, data_type, data) ==
    IF data_type = "Video"
    THEN \/ client.has_received_video_keyframe
         \/ is_video_sequence_header(data)
         \/ is_video_keyframe(data)
    ELSE \/ client.has_received_video_keyframe
         \/ is_audio_sequence_header(data)

\* The loop over channel.watching_client_ids of
\* handle_audio_video_data_received; fails holds the clients whose
\* send_video_data / send_audio_data returns Err.
RECURSIVE SendDataToWatchers(_, _, _, _, _, _, _, _)
SendDataToWatchers(w, order, stream_key, timestamp, data, data_type, fails, seq) ==
    IF order = << >> THEN w
    ELSE
    LET client_id == Head(order)
        client == w.server.clients[client_id]
        rest == Tail(order)
    IN
    IF client_id \notin DOMAIN w.server.clients
    THEN SendDataToWatchers(w, rest, stream_key, timestamp, data,
                            data_type, fails, seq)
    ELSE IF get_active_stream_id(client) = None
    THEN SendDataToWatchers(w, rest, stream_key, timestamp, data,
                            data_type, fails, seq)
    ELSE IF ~should_send_to_client(client, data_type, data)
    THEN SendDataToWatchers(w, rest, stream_key, timestamp, data,
                            data_type, fails, seq)
    ELSE
    LET w1 == IF data_type = "Video" /\ is_video_keyframe(data)
              THEN [w EXCEPT !.server.clients[client_id]
                                 .has_received_video_keyframe = TRUE]
              ELSE w
        result ==
            IF client_id \in fails
            THEN DisconnectConnection(client.connection_id)
            ELSE OutboundPacket(client.connection_id,
                     Packet(IF data_type = "Video" THEN "video" ELSE "audio",
                            get_active_stream_id(client)[1], data, timestamp,
                            stream_key, seq))
    IN SendDataToWatchers(
           [w1 EXCEPT !.server_results = Append(@, result)],
           rest, stream_key, timestamp, data, data_type, fails, seq)

\* Lines 1138-1171: the payload goes upstream while the push client is
\* Pushing; push_ok = FALSE is publish_video_data / publish_audio_data
\* returning Err, which is logged only.
ForwardToPush(w, stream_key, timestamp, data, data_type, push_ok, seq) ==
    LET pc == w.server.push_client
    IN IF pc.state = "Pushing" /\ push_ok
       THEN [w EXCEPT !.server_results = Append(@,
                OutboundPacket(pc.connection_id[1],
                    Packet(IF data_type = "Video" THEN "push_video"
                           ELSE "push_audio",
                           0, data, timestamp, stream_key, seq)))]
       ELSE w

handle_audio_video_data_received(w, stream_key, timestamp, data, data_type, order, fails, push_ok, seq) ==
    IF stream_key \notin DOMAIN w.server.channels THEN w
    ELSE
    LET w1 == CASE data_type = "Video" /\ is_video_sequence_header(data) ->
                     [w EXCEPT !.server.channels[stream_key]
                                   .video_sequence_header = Some(data)]
                [] data_type = "Audio" /\ is_audio_sequence_header(data) ->
                     [w EXCEPT !.server.channels[stream_key]
                                   .audio_sequence_header = Some(data)]
                [] OTHER -> w
        w2 == SendDataToWatchers(w1, order, stream_key, timestamp, data,
                                 data_type, fails, seq)
    IN ForwardToPush(w2, stream_key, timestamp, data, data_type, push_ok, seq)

\* -------------------------------------------------- Server: push client
\* The push client gets a connection id from register_push_client only,
\* which handle_read_bytes calls once StartPushing has connected.
PushPacket(what) == Packet(what, 0, << >>, 0, "", 0)

PushOutbound(w, packets) ==
    [w EXCEPT !.server_results = @ \o
        [i \in 1 .. Len(packets) |->
            OutboundPacket(w.server.push_client.connection_id[1],
                           packets[i])]]

handle_push_connection_accepted_event(w) ==
    PushOutbound([w EXCEPT !.server.push_client.state = "Connected"],
                 << PushPacket("push_request_publishing") >>)

handle_push_publish_accepted_event(w) ==
    LET present == PushSourceStream \in DOMAIN w.server.channels
        channel == w.server.channels[PushSourceStream]
        metadata == IF ~present \/ channel.metadata = None THEN << >>
                    ELSE << Packet("push_metadata", 0,
                                   << channel.metadata[1] >>, 0,
                                   PushSourceStream, 0) >>
        video == IF ~present \/ channel.video_sequence_header = None
                 THEN << >>
                 ELSE << Packet("push_video", 0,
                                channel.video_sequence_header[1], 0,
                                PushSourceStream, 0) >>
        audio == IF ~present \/ channel.audio_sequence_header = None
                 THEN << >>
                 ELSE << Packet("push_audio", 0,
                                channel.audio_sequence_header[1], 0,
                                PushSourceStream, 0) >>
    IN PushOutbound([w EXCEPT !.server.push_client.state = "Pushing"],
                    metadata \o video \o audio)

\* session_results is [packets, event]: the OutboundResponse packets and
\* the event raised, if any. request_ok = FALSE is request_connection
\* returning Err, on which the method returns before it handles events.
handle_push_session_results(w, session_results, request_ok) ==
    LET w1 == PushOutbound(w, session_results.packets)
        handshaking == w1.server.push_client.state = "Handshaking"
        w2 == IF handshaking
              THEN [w1 EXCEPT !.server.push_client.state = "Connecting"]
              ELSE w1
        w3 == IF handshaking /\ request_ok
              THEN PushOutbound(w2, << PushPacket("push_request_connection") >>)
              ELSE w2
    IN IF handshaking /\ ~request_ok THEN w2
       ELSE CASE session_results.event = "ConnectionRequestAccepted" ->
                     handle_push_connection_accepted_event(w3)
              [] session_results.event = "PublishRequestAccepted" ->
                     handle_push_publish_accepted_event(w3)
              [] OTHER -> w3

register_push_client(s, connection_id) ==
    [s EXCEPT !.push_client.connection_id = Some(connection_id),
              !.push_client.state = "Handshaking"]

\* ------------------------------------------------------- bytes_received
IsPushConnection(s, connection_id) ==
    s.push_client.connection_id = Some(connection_id)

\* Lines 309-331: the first bytes of a connection create its InboundClient
\* (ServerSession::new with the default config does not fail).
EnsureInboundClient(w, connection_id) ==
    IF connection_id \in DOMAIN w.server.connection_to_client_map THEN w
    ELSE
    LET client_id == SlabNextKey(w.server.clients_slab)
    IN [w EXCEPT
          !.server_results = Append(@,
              OutboundPacket(connection_id, Response("initial"))),
          !.server.clients =
              MapInsert(@, client_id, NewInboundClient(connection_id)),
          !.server.clients_slab = SlabInsert(@),
          !.server.connection_to_client_map =
              MapInsert(@, connection_id, client_id)]

\* Lines 276-306: the push branch, handle_input having returned Ok.
push_bytes_received(w, event, request_ok) ==
    LET fresh == ~w.server.push_client.session
        w1 == [w EXCEPT !.server.push_client.session = TRUE]
        w2 == IF fresh
              THEN handle_push_session_results(w1,
                       [packets |-> << PushPacket("push_initial") >>,
                        event |-> "none"], request_ok)
              ELSE w1
    IN handle_push_session_results(w2,
           [packets |-> << >>, event |-> event], request_ok)

\* ------------------------------------------------------------ event loop
NewConnection(inbound) == [queue |-> << >>, inbound |-> inbound]

ConnInsert(conns, inbound) ==
    [ slots |-> MapInsert(conns.slots, SlabNextKey(conns.slab),
                          NewConnection(inbound)),
      slab |-> SlabInsert(conns.slab) ]

ConnRemove(conns, token) ==
    [ slots |-> MapRemove(conns.slots, token),
      slab |-> SlabRemove(conns.slab, token) ]

\* connection.enqueue_packet(poll, packet): queue holds the packets
\* handed to the connection, in the order of the calls.
enqueue_packet(connection, packet) ==
    [connection EXCEPT !.queue = Append(@, packet)]

\* get_app_options: the push host is the literal "localhost".
PushHost == "localhost"

\* SocketAddr::from_str accepts an IP address and a port only, a host
\* name is an AddrParseError.
ParsesAsSocketAddr(host) == host \notin {"localhost"}

\* Mutant: the results are drained newest first.
RECURSIVE DrainResultsNewestFirst(_, _)
DrainResultsNewestFirst(m, results) ==
    IF results = << >> \/ m.panicked THEN m
    ELSE
    LET result == results[Len(results)]
        m1 == CASE result.type = "OutboundPacket" ->
                     IF result.target_connection_id
                            \notin DOMAIN m.connections.slots
                     THEN m
                     ELSE [m EXCEPT
                             !.connections.slots[result.target_connection_id] =
                                 enqueue_packet(@, result.packet)]
                [] result.type = "DisconnectConnection" ->
                     [m EXCEPT !.closed_tokens = @ \cup {result.connection_id}]
                [] OTHER ->
                     IF ~ParsesAsSocketAddr(PushHost)
                     THEN [m EXCEPT !.panicked = TRUE]
                     ELSE [m EXCEPT
                             !.connections = ConnInsert(@, FALSE),
                             !.w.server = register_push_client(@,
                                            SlabNextKey(m.connections.slab))]
    IN DrainResultsNewestFirst(m1, SubSeq(results, 1, Len(results) - 1))

\* handle_read_bytes, the loop over server_results.drain(..).
\* m is [connections, w, closed_tokens, panicked]. StartPushing parses
\* PushHost ++ ":1935" and unwraps the result.
RECURSIVE DrainResults(_, _)
DrainResults(m, results) ==
    IF results = << >> \/ m.panicked THEN m
    ELSE
    LET result == Head(results)
        m1 == CASE result.type = "OutboundPacket" ->
                     IF result.target_connection_id
                            \notin DOMAIN m.connections.slots
                     THEN m
                     ELSE [m EXCEPT
                             !.connections.slots[result.target_connection_id] =
                                 enqueue_packet(@, result.packet)]
                [] result.type = "DisconnectConnection" ->
                     [m EXCEPT !.closed_tokens = @ \cup {result.connection_id}]
                [] OTHER ->   \* StartPushing
                     IF ~ParsesAsSocketAddr(PushHost)
                     THEN [m EXCEPT !.panicked = TRUE]
                     ELSE [m EXCEPT
                             !.connections = ConnInsert(@, FALSE),
                             !.w.server = register_push_client(@,
                                            SlabNextKey(m.connections.slab))]
    IN DrainResults(m1, Tail(results))

\* As CloseConnections, for a sweep that does not tell the server.
RECURSIVE CloseConnectionsUnnotified(_, _)
CloseConnectionsUnnotified(m, order) ==
    IF order = << >> \/ m.panicked THEN m
    ELSE
    LET token == Head(order)
    IN IF token \notin DOMAIN m.connections.slots
       THEN [m EXCEPT !.panicked = TRUE]
       ELSE CloseConnectionsUnnotified(
                [m EXCEPT !.connections = ConnRemove(@, token)],
                Tail(order))

\* run_server, the loop over connections_to_close: Slab::remove panics on
\* a vacant key. m is [connections, w, panicked].
RECURSIVE CloseConnections(_, _)
CloseConnections(m, order) ==
    IF order = << >> \/ m.panicked THEN m
    ELSE
    LET token == Head(order)
    IN IF token \notin DOMAIN m.connections.slots
       THEN [m EXCEPT !.panicked = TRUE]
       ELSE CloseConnections(
                [m EXCEPT !.connections = ConnRemove(@, token),
                          !.w = notify_connection_closed(@, token)],
                Tail(order))

\* ======================================================= operator: data
Replicas == 1 .. MaxReplicas
SpecValues == 1 .. MaxSpecs
StrimNames == { "ffmpeg-1" }

\* reconcile.rs run(): lease_ttl, renew_every; util/mod.rs: PROBE_INTERVAL.
\* Durations are in seconds; the clock advances by renew_every.
lease_ttl == 15
renew_every == 5
PROBE_INTERVAL == 30

\* util::hash_spec: a stable fingerprint of a Strim's spec (one value per
\* spec, distinct specs of a run having distinct fingerprints).
hash_spec(spec) == (spec * 7 + 3) % 16

\* StrimPhase, and StrimStatus (status.message is left out).
StrimPhases == { "Pending", "Starting", "Error", "Active", "Terminating" }
StrimStatus(phase, last_updated) ==
    [phase |-> phase, last_updated |-> last_updated]
DefaultStrimStatus == StrimStatus("Pending", None)

\* A Strim record: its spec, metadata.deletionTimestamp and status.
Strim(spec, deletion_timestamp, status) ==
    [spec |-> spec, deletion_timestamp |-> deletion_timestamp,
     status |-> status]

\* The annotation keys: strim_common::annotations::SPEC_HASH and
\* CREATED_BY, written by pod_resource, and HASH_ANNOTATION_NAME, read by
\* determine_action.
SPEC_HASH == "strim.beebs.dev/spec-hash"
CREATED_BY == "strim.beebs.dev/created-by"
HASH_ANNOTATION_NAME == "strim.beebs.dev/spec-hash"

\* A pod: metadata.name, the owner reference, metadata.annotations,
\* metadata.deletionTimestamp, status.phase and whether a container
\* state of status.containerStatuses is terminated.
Pod(name, owner, annotations, phase, terminated, deletion_timestamp) ==
    [name |-> name, owner |-> owner, annotations |-> annotations,
     phase |-> phase, terminated |-> terminated,
     deletion_timestamp |-> deletion_timestamp]

\* pod_resource: named after the instance, owned by it, annotated with
\* the hash of its spec; status None.
pod_resource(name, instance) ==
    Pod(name, name,
        Some(MapInsert(MapInsert(EmptyMap, SPEC_HASH, hash_spec(instance.spec)),
                       CREATED_BY, "strim-operator")),
        None, FALSE, FALSE)

\* Object::mut_status: the status, initialised with the default if absent.
mut_status(instance) ==
    IF instance.status # None THEN instance.status[1] ELSE DefaultStrimStatus

\* StrimAction.
StrimAction(kind) == [kind |-> kind]
CreatePod == StrimAction("CreatePod")
DeletePod == StrimAction("DeletePod")
StartingAction == StrimAction("Starting")
ActiveAction == StrimAction("Active")
ErrorAction == StrimAction("Error")
NoOp == StrimAction("NoOp")
Requeue == StrimAction("Requeue")

\* run(): controller_task and the position in the loop ("select": waiting
\* for the tick, "acquire": awaiting try_acquire_or_renew, "exited": after
\* break). due: the interval has a tick ready. alive: the controller tasks
\* spawned and not aborted; reconciles: the reconciles of the controller
\* task in progress, by Strim name; returned: what the last reconcile of
\* each name returned; failing: since when the replica's calls to the
\* cluster API fail; cancelled: the shutdown token is cancelled. pc is
\* "panicked" once main.rs has panicked on the return of run().
NewReplica ==
    [pc |-> "select", due |-> TRUE, result |-> None, controller_task |-> None,
     spawned |-> 0, alive |-> {}, reconciles |-> EmptyMap,
     returned |-> EmptyMap, failing |-> None, cancelled |-> FALSE]

World == [server |-> server, tasks |-> tasks, server_results |-> server_results]

\* hist.last describes the session event handled last in the
\* bytes_received call in progress (NoLast outside of one).
Last(op, conn, key, arg) == [op |-> op, conn |-> conn, key |-> key, arg |-> arg]
NoLast == Last("none", 0, "", None)

\* The state after construction, but for the payload to classify.
InitProcesses ==
    /\ server \in { NewServer(target) : target \in BOOLEAN }
    /\ connections = [slots |-> EmptyMap, slab |-> EmptySlab]
    /\ reading = None
    /\ server_results = << >>
    /\ tasks = {}
    /\ records = {}
    /\ panicked = FALSE
    /\ hist = [events |-> 0, batch |-> 0,
               last |-> NoLast, accept_errors |-> 0]
    /\ event_loop = [cancel |-> FALSE, result |-> None]
    /\ clock = 0
    /\ lease = None
    /\ replicas = [r \in Replicas |-> NewReplica]
    /\ strims = EmptyMap
    /\ pods = {}
    /\ cancel = FALSE
    /\ watcher = [watching |-> TRUE, events |-> 0]
    /\ rx = << >>
    /\ disk = {}
    /\ bucket = EmptyMap
    /\ uploader = [pc |-> "select", path |-> None, remove |-> FALSE,
                   log |-> << >>]

Init == InitProcesses /\ classified = [data |-> << >>, class |-> None]

Idle == reading = None /\ ~panicked /\ event_loop.result = None

\* The listener is readable: accept and register a connection.
AcceptConnection(sc) ==
    /\ Idle
    /\ Cardinality(DOMAIN connections.slots) < sc.max_conns
    /\ connections' = ConnInsert(connections, TRUE)
    /\ UNCHANGED << server, reading, server_results, tasks, records, panicked,
                    hist, event_loop, classified,
                    operator_vars, uploader_vars >>

\* The listener is readable and the accept fails. Lines 175-181:
\* `listener.accept().unwrap()` panics when accept returns Err, and
\* `socket.peer_addr()?` returns the error from run_server when the
\* accepted socket has no peer address any more; no connection is added.
AcceptFails ==
    /\ Idle
    /\ \E failed \in {"accept", "peer_addr"} :
         IF failed = "accept"
         THEN panicked' = TRUE /\ UNCHANGED event_loop
         ELSE /\ event_loop' = [event_loop EXCEPT !.result = Some("Err")]
              /\ UNCHANGED panicked
    /\ hist' = [hist EXCEPT !.accept_errors = @ + 1]
    /\ UNCHANGED << server, connections, reading, server_results, tasks,
                    records, classified, operator_vars, uploader_vars >>

\* Commit the outcome of closing the tokens in order.
Closing(w, conns, order, drain_panicked) ==
    LET m == CloseConnections([connections |-> conns, w |-> w,
                               panicked |-> drain_panicked], order)
    IN /\ connections' = m.connections
       /\ server' = m.w.server
       /\ tasks' = m.w.tasks
       /\ panicked' = m.panicked
       /\ reading' = None
       /\ server_results' = << >>
       /\ hist' = [hist EXCEPT !.batch = 0, !.last = NoLast]
       /\ UNCHANGED << records, event_loop, classified,
                    operator_vars, uploader_vars >>

\* process_event returns DisconnectConnection (socket closed, I/O error).
SocketClosed ==
    /\ Idle
    /\ \E token \in Tokens :
         /\ token \in DOMAIN connections.slots
         /\ Closing(World, connections, << token >>, FALSE)

\* handle_read_bytes when bytes_received returns Err (handle_input failed):
\* the results collected so far are dropped and the connection is closed.
ReadBytesError ==
    /\ Idle
    /\ \E token \in Tokens :
         /\ token \in DOMAIN connections.slots
         /\ LET w == IF IsPushConnection(server, token)
                     THEN [World EXCEPT !.server.push_client.session = TRUE]
                     ELSE EnsureInboundClient(World, token)
            IN Closing(w, connections, << token >>, FALSE)

\* bytes_received on an inbound connection, up to the events of handle_input.
BeginRead ==
    /\ Idle
    /\ \E token \in Tokens :
         /\ token \in DOMAIN connections.slots
         /\ ~IsPushConnection(server, token)
         /\ LET w == EnsureInboundClient(World, token)
            IN /\ server' = w.server
               /\ server_results' = w.server_results
               /\ reading' = Some(token)
    /\ UNCHANGED << connections, tasks, records, panicked, hist,
                    event_loop, classified,
                    operator_vars, uploader_vars >>

\* A scope sc bounds the inputs of a run: max_conns connections open at
\* once, max_events session events in all, publish requests for the (app, stream key) pairs sc.targets,
\* play requests for sc.play_keys, media payloads sc.media (pairs of
\* data type and bytes); sc.oks holds the outcomes of accept_request
\* (TRUE: Ok) and sc.send_failures says whether a send to a watcher may
\* return Err.
InBatch(sc) ==
    /\ reading # None
    /\ ~panicked
    /\ ~IsPushConnection(server, reading[1])
    /\ hist.events < sc.max_events
    /\ hist.batch < MaxBatch

ReadingClient == server.clients[server.connection_to_client_map[reading[1]]]

\* Commit an event handler's world.
Handled(w, last) ==
    /\ server' = w.server
    /\ tasks' = w.tasks
    /\ server_results' = w.server_results
    /\ hist' = [hist EXCEPT !.events = @ + 1, !.batch = @ + 1, !.last = last]
    /\ UNCHANGED << connections, reading, records, panicked, event_loop,
                    classified, operator_vars, uploader_vars >>

ConnectionRequested(sc) ==
    /\ InBatch(sc)
    /\ \E accept_ok \in sc.oks :
         Handled(handle_connection_requested(World, reading[1], accept_ok),
                 Last("connect", reading[1], "", accept_ok))

PublishOutcome(s, stream_key, accept_ok) ==
    IF stream_key \in DOMAIN s.channels
       /\ s.channels[stream_key].publishing_client_id # None
    THEN "rejected"
    ELSE IF accept_ok THEN "accepted" ELSE "accept_failed"

PublishRequested(sc) ==
    /\ InBatch(sc)
    /\ \E target \in sc.targets, accept_ok \in sc.oks :
         LET app_name == target[1]
             stream_key == target[2]
             outcome == PublishOutcome(server, stream_key, accept_ok)
         IN /\ outcome = "rejected" => accept_ok
            /\ Handled(handle_publish_requested(World, reading[1], app_name,
                           stream_key, accept_ok, hist.events + 1),
                       Last("publish", reading[1], stream_key,
                            [app_name |-> app_name, outcome |-> outcome]))

\* PublishStreamFinished: the server ignores it; the session stops
\* raising media events for the stream key.
PublishFinished(sc) ==
    /\ InBatch(sc)
    /\ \E stream_key \in ReadingClient.session.publishing :
         Handled([World EXCEPT
                    !.server.clients[server.connection_to_client_map[reading[1]]]
                        .session.publishing = @ \ {stream_key}],
                 Last("publish_finished", reading[1], stream_key, None))

PlayRequested(sc) ==
    /\ InBatch(sc)
    /\ \E stream_key \in sc.play_keys, stream_id \in StreamIds, ok \in sc.oks :
         Handled(handle_play_requested(World, reading[1], stream_key,
                                       stream_id, ok),
                 Last("play", reading[1], stream_key,
                      [stream_id |-> stream_id, ok |-> ok]))

\* The watchers a send is attempted to (a live client with an active stream).
ActiveWatchers(s, stream_key) ==
    { c \in s.channels[stream_key].watching_client_ids :
        /\ c \in DOMAIN s.clients
        /\ get_active_stream_id(s.clients[c]) # None }

FailureSets(sc, attempted) ==
    IF sc.send_failures THEN SUBSET attempted ELSE { {} }

MetadataChanged(sc) ==
    /\ InBatch(sc)
    /\ \E stream_key \in ReadingClient.session.publishing :
       \E order \in Orders(server.channels[stream_key].watching_client_ids),
          fails \in FailureSets(sc, ActiveWatchers(server, stream_key)) :
         Handled(handle_metadata_received(World, stream_key,
                     hist.events + 1, order, fails),
                 Last("metadata", reading[1], stream_key, [fails |-> fails]))

AttemptedWatchers(s, stream_key, data_type, data) ==
    { c \in ActiveWatchers(s, stream_key) :
        should_send_to_client(s.clients[c], data_type, data) }

AudioVideoData(sc) ==
    /\ InBatch(sc)
    /\ \E stream_key \in ReadingClient.session.publishing :
       \E media \in sc.media, push_ok \in BOOLEAN :
       LET data_type == media[1]
           data == media[2]
           \* the publisher's timestamps increase: the arrival number
           timestamp == hist.events + 1
       IN
       \E order \in Orders(server.channels[stream_key].watching_client_ids),
          fails \in FailureSets(sc, AttemptedWatchers(server, stream_key,
                                                      data_type, data)) :
         /\ ~push_ok => server.push_client.state = "Pushing"
         /\ Handled(handle_audio_video_data_received(World, stream_key,
                        timestamp, data, data_type, order, fails, push_ok,
                        hist.events + 1),
                    Last("data", reading[1], stream_key,
                         [data_type |-> data_type, data |-> data,
                          timestamp |-> timestamp, fails |-> fails,
                          seq |-> hist.events + 1]))

\* The rest of handle_read_bytes and the sweep of connections_to_close.
EndRead ==
    /\ reading # None
    /\ ~panicked
    /\ LET m == DrainResults([connections |-> connections, w |-> World,
                              closed_tokens |-> {}, panicked |-> FALSE],
                             server_results)
       IN \E order \in Orders(m.closed_tokens) :
            Closing(m.w, m.connections, order, m.panicked)

\* A spawned cluster-API task runs to its end: create (a 409 is logged)
\* or delete (a 404 is logged). The cluster API is taken to answer.
RunTask ==
    /\ ~panicked
    /\ \E task \in tasks :
         /\ tasks' = tasks \ {task}
         /\ records' = IF task.op = "create"
                       THEN records \cup {task.name}
                       ELSE records \ {task.name}
    /\ UNCHANGED << server, connections, reading, server_results, panicked,
                    hist, event_loop, classified,
                    operator_vars, uploader_vars >>

\* The three classifiers of server.rs are applied to the payload.
Classify ==
    /\ classified.class = None
    /\ classified' = [classified EXCEPT !.class = Some(
           [video_sequence_header |-> is_video_sequence_header(classified.data),
            video_keyframe |-> is_video_keyframe(classified.data),
            audio_sequence_header |->
                is_audio_sequence_header(classified.data)])]
    /\ UNCHANGED << server, connections, reading, server_results, tasks,
                    records, panicked, hist, event_loop, operator_vars,
                    uploader_vars >>

\* shutdown_signal() returns in the ingest server and the token is
\* cancelled.
IngestCancelled ==
    /\ ~event_loop.cancel
    /\ event_loop.result = None
    /\ event_loop' = [event_loop EXCEPT !.cancel = TRUE]
    /\ UNCHANGED << server, connections, reading, server_results, tasks,
                    records, panicked, hist, classified, operator_vars,
                    uploader_vars >>

\* run_server: the loop finds the token cancelled, before it polls or
\* before an event, and bails out with an error.
LoopBails ==
    /\ Idle
    /\ event_loop.cancel
    /\ event_loop' = [event_loop EXCEPT !.result = Some("Err")]
    /\ UNCHANGED << server, connections, reading, server_results, tasks,
                    records, panicked, hist, classified, operator_vars,
                    uploader_vars >>

FullScope ==
    [ max_conns |-> MaxConns,
      max_events |-> MaxEvents,
      targets |-> PublishTargets,
      play_keys |-> Keys,
      media |-> {"Video", "Audio"} \X Payloads,
      oks |-> BOOLEAN,
      send_failures |-> TRUE ]

Next ==
    \/ AcceptConnection(FullScope)
    \/ SocketClosed
    \/ ReadBytesError
    \/ BeginRead
    \/ ConnectionRequested(FullScope)
    \/ PublishRequested(FullScope)
    \/ PublishFinished(FullScope)
    \/ PlayRequested(FullScope)
    \/ MetadataChanged(FullScope)
    \/ AudioVideoData(FullScope)
    \/ EndRead
    \/ RunTask

Spec == Init /\ [][Next]_vars

\* Routing in depth: one stream key, no object-store target (no
\* Pipeline task is spawned), every accept_request succeeds.
RouteScope ==
    [ max_conns |-> MaxRouteConns,
      max_events |-> MaxRouteEvents,
      targets |-> { <<"live", "abc">> },
      play_keys |-> { "abc" },
      media |-> {"Video", "Audio"} \X Payloads,
      oks |-> { TRUE },
      send_failures |-> TRUE ]

InitRoute == Init /\ server = NewServer(FALSE)

NextRoute ==
    \/ AcceptConnection(RouteScope)
    \/ SocketClosed
    \/ ReadBytesError
    \/ BeginRead
    \/ PublishRequested(RouteScope)
    \/ PlayRequested(RouteScope)
    \/ MetadataChanged(RouteScope)
    \/ AudioVideoData(RouteScope)
    \/ EndRead

SpecRoute == InitRoute /\ [][NextRoute]_vars

\* Joining in depth: as the routing specification, with fewer
\* connections and payloads, more events and no failing send.
JoinScope ==
    [ max_conns |-> MaxConns,
      max_events |-> MaxJoinEvents,
      targets |-> { <<"live", "abc">> },
      play_keys |-> { "abc" },
      media |-> { <<"Video", <<23, 0>> >>, <<"Video", <<23, 1>> >>,
                  <<"Audio", <<175, 0>> >>, <<"Audio", <<39, 1>> >> },
      oks |-> { TRUE },
      send_failures |-> FALSE ]

NextJoin ==
    \/ AcceptConnection(JoinScope)
    \/ SocketClosed
    \/ BeginRead
    \/ PublishRequested(JoinScope)
    \/ PlayRequested(JoinScope)
    \/ MetadataChanged(JoinScope)
    \/ AudioVideoData(JoinScope)
    \/ EndRead

SpecJoin == InitRoute /\ [][NextJoin]_vars

\* ===================================================== operator: model
\* kube_leader_election::LeaseLock, as run() configures it: the lease is
\* free, held by holder_id, or held by another holder and expired once
\* lease_ttl has passed since its renewal.
has_lease_expired(l, now) == now - l.renew_time >= lease_ttl

\* As try_acquire_or_renew, for a lease that never expires.
try_acquire_or_renew_no_expiry(l, holder_id, now) ==
    IF l = None \/ l[1].holder = holder_id
    THEN [lease |-> Some([holder |-> holder_id, renew_time |-> now]),
          acquired_lease |-> TRUE]
    ELSE [lease |-> l, acquired_lease |-> FALSE]

try_acquire_or_renew(l, holder_id, now) ==
    IF l = None \/ l[1].holder = holder_id \/ has_lease_expired(l[1], now)
    THEN [lease |-> Some([holder |-> holder_id, renew_time |-> now]),
          acquired_lease |-> TRUE]
    ELSE [lease |-> l, acquired_lease |-> FALSE]

\* controller_task.take() and task.abort(): the task and the reconciles
\* it has in progress are dropped.
AbortController(replica) ==
    IF replica.controller_task = None
    THEN replica
    ELSE [replica EXCEPT !.controller_task = None,
                         !.alive = @ \ {replica.controller_task[1]},
                         !.reconciles = EmptyMap]

\* tokio::spawn of the controller, when controller_task.is_none().
SpawnController(replica) ==
    IF replica.controller_task # None
    THEN replica
    ELSE [replica EXCEPT !.controller_task = Some(replica.spawned + 1),
                         !.spawned = @ + 1,
                         !.alive = @ \cup {replica.spawned + 1}]

\* As handle_lease_result, with an Err arm that only logs and continues.
handle_lease_result_err_continues(replica, result) ==
    LET after == CASE result = "err" -> replica
                   [] result = "acquired" -> SpawnController(replica)
                   [] OTHER -> AbortController(replica)
    IN [after EXCEPT !.pc = "select", !.result = None]

\* run(), from the result of try_acquire_or_renew to the end of the loop
\* body. result is "err", "acquired" or "not_acquired".
handle_lease_result(replica, result) ==
    LET after == CASE result = "err" -> AbortController(replica)
                   [] result = "acquired" -> SpawnController(replica)
                   [] OTHER -> AbortController(replica)
    IN [after EXCEPT !.pc = "select", !.result = None]

\* get_pod: Ok(Some(pod)) for the pod of that name, Ok(None) on a 404.
get_pod(ps, name) ==
    IF \E p \in ps : p.name = name
    THEN Some(CHOOSE p \in ps : p.name = name)
    ELSE None

\* Err(...) of reconcile, in place of an action.
Err == StrimAction("Err")

\* get_strim_phase and determine_status_action: Err without a status or a
\* lastUpdated, or when lastUpdated lies in the future (age.to_std()).
determine_status_action(instance, now) ==
    IF instance.status = None THEN Err
    ELSE IF instance.status[1].last_updated = None THEN Err
    ELSE LET phase == instance.status[1].phase
             age == now - instance.status[1].last_updated[1]
         IN IF age < 0 THEN Err
            ELSE IF phase # "Active" \/ age > PROBE_INTERVAL
                 THEN ActiveAction
                 ELSE NoOp

\* As HashMatches, testing only that the annotation is there.
HashMatchesAnyValue(pod, desired_hash) ==
    /\ pod.annotations # None
    /\ HASH_ANNOTATION_NAME \in DOMAIN pod.annotations[1]

\* determine_action: annotations.is_some_and(|a| a.get(HASH_ANNOTATION_NAME)
\* == Some(&desired_hash)).
HashMatches(pod, desired_hash) ==
    /\ pod.annotations # None
    /\ HASH_ANNOTATION_NAME \in DOMAIN pod.annotations[1]
    /\ pod.annotations[1][HASH_ANNOTATION_NAME] = desired_hash

\* As determine_action, for an Error phase that nothing leaves.
determine_action_error_is_final(instance, pod, now) ==
    IF instance.status # None /\ instance.status[1].phase = "Error"
    THEN NoOp
    ELSE IF instance.deletion_timestamp THEN Requeue
    ELSE IF pod = None THEN CreatePod
    ELSE IF pod[1].deletion_timestamp THEN Requeue
    ELSE IF ~HashMatches(pod[1], hash_spec(instance.spec)) THEN DeletePod
    ELSE IF pod[1].phase \in { Some("Pending"), Some("ContainerCreating") }
         THEN IF instance.status # None /\ instance.status[1].phase = "Starting"
              THEN NoOp
              ELSE StartingAction
    ELSE IF pod[1].phase = Some("Running")
         THEN IF pod[1].terminated
              THEN DeletePod
              ELSE determine_status_action(instance, now)
    ELSE IF pod[1].phase \in { Some("Succeeded"), Some("Failed") }
         THEN DeletePod
    ELSE ErrorAction

\* determine_action, given the answer of get_pod.
determine_action(instance, pod, now) ==
    IF instance.deletion_timestamp THEN Requeue
    ELSE IF pod = None THEN CreatePod
    ELSE IF pod[1].deletion_timestamp THEN Requeue
    ELSE IF ~HashMatches(pod[1], hash_spec(instance.spec)) THEN DeletePod
    ELSE IF pod[1].phase \in { Some("Pending"), Some("ContainerCreating") }
         THEN IF instance.status # None /\ instance.status[1].phase = "Starting"
              THEN NoOp
              ELSE StartingAction
    ELSE IF pod[1].phase = Some("Running")
         THEN IF pod[1].terminated
              THEN DeletePod
              ELSE determine_status_action(instance, now)
    ELSE IF pod[1].phase \in { Some("Succeeded"), Some("Failed") }
         THEN DeletePod
    ELSE ErrorAction

\* The phase that the write phase of reconcile patches into the status:
\* actions::create_pod, delete_pod, starting, active and error.
WrittenPhase(action) ==
    CASE action = CreatePod -> "Starting"
      [] action = DeletePod -> "Pending"
      [] action = StartingAction -> "Starting"
      [] action = ActiveAction -> "Active"
      [] action = ErrorAction -> "Error"

\* patch_status up to the API call: the JSON patch from the instance to
\* its clone with the phase set and lastUpdated = now. Without a status
\* in the instance the patch adds the whole status; with one it replaces
\* the fields that differ.
StatusPatch(instance, phase, now) ==
    LET modified == [mut_status(instance) EXCEPT !.phase = phase,
                                               !.last_updated = Some(now)]
    IN [status |-> modified,
        whole |-> instance.status = None,
        phase |-> instance.status = None
                  \/ instance.status[1].phase # modified.phase,
        last_updated |-> instance.status = None
                  \/ instance.status[1].last_updated # modified.last_updated]

\* Api::patch_status at the API server: 404 without the record, 422 when
\* a field is replaced in a status the record does not have.
patch_status(crs, name, instance, phase, now) ==
    LET patch == StatusPatch(instance, phase, now)
    IN IF name \notin DOMAIN crs
       THEN [ok |-> FALSE, strims |-> crs]
       ELSE IF patch.whole
       THEN [ok |-> TRUE,
             strims |-> [crs EXCEPT ![name].status = Some(patch.status)]]
       ELSE IF crs[name].status = None
       THEN [ok |-> ~(patch.phase \/ patch.last_updated), strims |-> crs]
       ELSE [ok |-> TRUE,
             strims |-> [crs EXCEPT
                 ![name].status = Some(StrimStatus(
                     IF patch.phase THEN patch.status.phase ELSE @[1].phase,
                     IF patch.last_updated THEN patch.status.last_updated
                     ELSE @[1].last_updated))]]

\* create_pod against an API server that never answered 409.
create_pod_no_conflict(ps, name, instance) ==
    [code |-> 201,
     pods |-> ps \cup { [pod_resource(name, instance)
                          EXCEPT !.phase = Some("Pending")] }]

\* Api::create of create_pod at the API server: 409 when a pod of that
\* name exists; a created pod starts in phase Pending.
create_pod(ps, name, instance) ==
    LET pod == pod_resource(name, instance)
    IN IF \E p \in ps : p.name = pod.name
       THEN [code |-> 409, pods |-> ps]
       ELSE [code |-> 201,
             pods |-> ps \cup { [pod EXCEPT !.phase = Some("Pending")] }]

\* create_pod: Ok when the pod was created or the API answered 409.
create_pod_result(code) == IF code \in { 201, 409 } THEN "Ok" ELSE "Err"

\* delete_pod: Ok when the pod was deleted or the API answered 404.
delete_pod_result(code) == IF code \in { 200, 404 } THEN "Ok" ELSE "Err"

\* Api::delete of delete_pod at the API server: 404 without the pod; the
\* pod is marked with a deletion timestamp and removed once it stopped.
delete_pod(ps, name) ==
    IF \E p \in ps : p.name = name
    THEN [code |-> 200,
          pods |-> { IF p.name = name
                     THEN [p EXCEPT !.deletion_timestamp = TRUE]
                     ELSE p : p \in ps }]
    ELSE [code |-> 404, pods |-> ps]

\* An operator scope osc bounds a run: the replicas started and the
\* second each one starts in (osc.offset), the Strim names and spec values
\* of the cluster, the seconds that elapse (osc.horizon) and the seconds
\* between two states (osc.period), the replicas whose calls may start to
\* fail for good (osc.failing),
\* whether a cluster-API call may fail in transport (osc.api_errors),
\* whether the answer of try_acquire_or_renew may be late (osc.delays:
\* without it the call is answered in the step that makes it), whether
\* a replica may receive the shutdown signal (osc.shutdown), whether
\* Strims and pods are deleted from outside (osc.deletions), whether
\* containers terminate while the pod runs (osc.terminations), the pod
\* phases the kubelet reports (osc.pod_phases) and whether every edit
\* gives the spec a value it did not have before (osc.fresh_edits).
\* A call of replica r to the cluster API is answered (TRUE) or fails in
\* transport (FALSE).
CallOutcomes(osc, r) ==
    { ok \in BOOLEAN : IF ok THEN replicas[r].failing = None
                       ELSE osc.api_errors \/ replicas[r].failing # None }

\* run(): the interval ticks and try_acquire_or_renew is called; the call
\* reaches the API server or fails in transport.
Tick(osc) ==
    \E r \in osc.replicas, ok \in BOOLEAN :
      /\ replicas[r].pc = "select"
      /\ replicas[r].due
      /\ clock >= osc.offset[r]
      /\ ok \in CallOutcomes(osc, r)
      /\ LET answer == try_acquire_or_renew(lease, r, clock)
             result == IF ~ok THEN "err"
                       ELSE IF answer.acquired_lease THEN "acquired"
                       ELSE "not_acquired"
         IN /\ lease' = IF ok THEN answer.lease ELSE lease
            /\ replicas' =
                 IF osc.delays
                 THEN [replicas EXCEPT ![r].pc = "acquire",
                                       ![r].due = FALSE,
                                       ![r].result = Some(result)]
                 ELSE [replicas EXCEPT ![r] = handle_lease_result(
                                           [@ EXCEPT !.due = FALSE], result)]
      /\ UNCHANGED << clock, strims, pods, ingest_vars, uploader_vars >>

\* run(): the call returns and the controller task is started, kept or
\* aborted.
LeaseResult(osc) ==
    \E r \in osc.replicas :
      /\ replicas[r].pc = "acquire"
      /\ replicas' = [replicas EXCEPT
                        ![r] = handle_lease_result(@, replicas[r].result[1])]
      /\ UNCHANGED << clock, lease, strims, pods, ingest_vars, uploader_vars >>

\* shutdown_signal() returns in a replica and its token is cancelled.
ShutdownSignal(osc) ==
    \E r \in osc.replicas :
      /\ osc.shutdown
      /\ ~replicas[r].cancelled
      /\ replicas[r].pc \in { "select", "acquire" }
      /\ replicas' = [replicas EXCEPT ![r].cancelled = TRUE]
      /\ UNCHANGED << clock, lease, strims, pods, ingest_vars, uploader_vars >>

\* main.rs: run() unwraps the Ok(()) of strims::run and panics ("exited
\* unexpectedly"); the panic hook exits the process with code 1.
MainReturns(osc) ==
    \E r \in osc.replicas :
      /\ replicas[r].pc = "exited"
      /\ replicas' = [replicas EXCEPT ![r].pc = "panicked"]
      /\ UNCHANGED << clock, lease, strims, pods, ingest_vars, uploader_vars >>

\* run(): select! takes the cancelled branch; the controller task is
\* aborted and the loop breaks with Ok(()).
Shutdown(osc) ==
    \E r \in osc.replicas :
      /\ replicas[r].cancelled
      /\ replicas[r].pc = "select"
      /\ replicas' = [replicas EXCEPT
                        ![r] = [AbortController(@) EXCEPT !.pc = "exited"]]
      /\ UNCHANGED << clock, lease, strims, pods, ingest_vars, uploader_vars >>

\* Time passes: the interval of a replica has a tick ready when it starts
\* and every renew_every after that. A replica waiting in select! takes
\* its tick before time goes on; a call to the API server may stay
\* unanswered for any time.
Advance(osc) ==
    /\ clock < osc.horizon
    /\ \A r \in osc.replicas : ~(/\ replicas[r].pc = "select"
                                  /\ replicas[r].due
                                  /\ clock >= osc.offset[r])
    /\ clock' = clock + osc.period
    /\ replicas' = [r \in Replicas |->
                      IF /\ r \in osc.replicas
                         /\ clock' >= osc.offset[r]
                         /\ (clock' - osc.offset[r]) % renew_every = 0
                      THEN [replicas[r] EXCEPT !.due = TRUE]
                      ELSE replicas[r]]
    /\ UNCHANGED << lease, strims, pods, ingest_vars, uploader_vars >>


\* ------------------------------------------------- operator: reconciles
\* A reconcile in progress: where it stands, the instance it was given,
\* the action chosen and, while its status patch is on its way, the time
\* the patch was built at.
Reconcile(pc, instance, action, now) ==
    [pc |-> pc, instance |-> instance, action |-> action, now |-> now]

\* reconcile returns: Ok(Action) or Err, which on_error answers with a
\* requeue.
ReconcileEnds(r, name, result) ==
    [replicas EXCEPT ![r].reconciles = MapRemove(@, name),
                     ![r].returned = MapInsert(@, name, result)]

\* The controller of a live task dispatches reconcile for a Strim with
\* the record as observed; reconciles of one name are serialized.
ReconcileStart(osc) ==
    \E r \in osc.replicas, name \in osc.names :
      /\ replicas[r].alive # {}
      /\ name \in DOMAIN strims
      /\ name \notin DOMAIN replicas[r].reconciles
      /\ replicas' = [replicas EXCEPT ![r].reconciles =
             MapInsert(@, name, Reconcile("read", strims[name], NoOp, None))]
      /\ UNCHANGED << clock, lease, strims, pods, ingest_vars, uploader_vars >>

\* reconcile: the read phase. NoOp, Requeue and Err end the reconcile
\* without a write; get_pod may fail in transport. The write phase
\* builds its status patch, with lastUpdated = Utc::now(), before it
\* awaits the API call.
DetermineAction(osc) ==
    \E r \in osc.replicas, name \in osc.names, ok \in BOOLEAN :
      /\ name \in DOMAIN replicas[r].reconciles
      /\ replicas[r].reconciles[name].pc = "read"
      /\ ok \in IF replicas[r].reconciles[name].instance.deletion_timestamp
                THEN { TRUE }
                ELSE CallOutcomes(osc, r)
      /\ LET instance == replicas[r].reconciles[name].instance
             action == IF ok
                       THEN determine_action(instance, get_pod(pods, name),
                                             clock)
                       ELSE Err
         IN /\ replicas' =
                 IF action \in { NoOp, Requeue, Err }
                 THEN ReconcileEnds(r, name,
                                    IF action = Err THEN "Err" ELSE "Ok")
                 ELSE [replicas EXCEPT ![r].reconciles[name] =
                          Reconcile("write", instance, action,
                                    Some(clock))]
      /\ UNCHANGED << clock, lease, strims, pods, ingest_vars, uploader_vars >>

\* reconcile: the status patch of the write phase. CreatePod and
\* DeletePod go on to the pod call when the patch succeeded.
PatchStatus(osc) ==
    \E r \in osc.replicas, name \in osc.names, ok \in BOOLEAN :
      /\ name \in DOMAIN replicas[r].reconciles
      /\ replicas[r].reconciles[name].pc = "write"
      /\ ok \in CallOutcomes(osc, r)
      /\ LET rec == replicas[r].reconciles[name]
             answer == IF ok
                       THEN patch_status(strims, name, rec.instance,
                                         WrittenPhase(rec.action), rec.now[1])
                       ELSE [ok |-> FALSE, strims |-> strims]
         IN /\ strims' = answer.strims
            /\ replicas' =
                 IF answer.ok /\ rec.action \in { CreatePod, DeletePod }
                 THEN [replicas EXCEPT ![r].reconciles[name] =
                          Reconcile("pod", rec.instance, rec.action, None)]
                 ELSE ReconcileEnds(r, name,
                                    IF answer.ok THEN "Ok" ELSE "Err")
      /\ UNCHANGED << clock, lease, pods, ingest_vars, uploader_vars >>

\* reconcile: the pod call of create_pod (409 is Ok) or delete_pod (404
\* is Ok).
PodCall(osc) ==
    \E r \in osc.replicas, name \in osc.names, ok \in BOOLEAN :
      /\ name \in DOMAIN replicas[r].reconciles
      /\ replicas[r].reconciles[name].pc = "pod"
      /\ ok \in CallOutcomes(osc, r)
      /\ LET rec == replicas[r].reconciles[name]
             answer == IF ~ok THEN [code |-> 500, pods |-> pods]
                       ELSE IF rec.action = CreatePod
                       THEN create_pod(pods, name, rec.instance)
                       ELSE delete_pod(pods, name)
         IN /\ pods' = answer.pods
            /\ replicas' = ReconcileEnds(r, name,
                                IF rec.action = CreatePod
                                THEN create_pod_result(answer.code)
                                ELSE delete_pod_result(answer.code))
      /\ UNCHANGED << clock, lease, strims, ingest_vars, uploader_vars >>

\* ---------------------------------------------- operator: environment
\* The ingest server's create task stores a Strim record. Its name
\* carries a nonce: nothing in the cluster refers to the name yet.
StrimCreated(osc) ==
    \E name \in osc.names, spec \in osc.specs :
      /\ name \notin DOMAIN strims
      /\ \A p \in pods : p.name # name
      /\ \A r \in Replicas : name \notin DOMAIN replicas[r].reconciles
      /\ strims' = MapInsert(strims, name, Strim(spec, FALSE, None))
      /\ UNCHANGED << clock, lease, replicas, pods, ingest_vars, uploader_vars >>

\* A user edits the spec of a Strim.
SpecEdited(osc) ==
    \E name \in osc.names, spec \in osc.specs :
      /\ name \in DOMAIN strims
      /\ spec # strims[name].spec
      /\ osc.fresh_edits => spec > strims[name].spec
      /\ strims' = [strims EXCEPT ![name].spec = spec]
      /\ UNCHANGED << clock, lease, replicas, pods, ingest_vars, uploader_vars >>

\* The Strim is deleted: in the foreground it keeps a deletion timestamp
\* while its pods exist, else the record is removed.
StrimDeleted(osc) ==
    \E name \in osc.names, foreground \in BOOLEAN :
      /\ osc.deletions
      /\ name \in DOMAIN strims
      /\ IF foreground /\ (\E p \in pods : p.owner = name)
         THEN /\ ~strims[name].deletion_timestamp
              /\ strims' = [strims EXCEPT ![name].deletion_timestamp = TRUE]
         ELSE strims' = MapRemove(strims, name)
      /\ UNCHANGED << clock, lease, replicas, pods, ingest_vars, uploader_vars >>

\* The kubelet reports the next phase of a pod.
PodPhaseNext(phase) ==
    CASE phase = Some("Pending") -> { "Running", "Failed", "Unknown" }
      [] phase = Some("Running") -> { "Succeeded", "Failed", "Unknown" }
      [] phase = Some("Unknown") -> { "Pending", "Running", "Failed" }
      [] OTHER -> {}

PodPhaseChanged(osc) ==
    \E p \in pods, phase \in osc.pod_phases :
      /\ ~p.deletion_timestamp
      /\ phase \in PodPhaseNext(p.phase)
      /\ pods' = (pods \ {p}) \cup { [p EXCEPT !.phase = Some(phase)] }
      /\ UNCHANGED << clock, lease, replicas, strims, ingest_vars, uploader_vars >>

\* The kubelet reports a container of the pod as terminated.
ContainerTerminated(osc) ==
    \E p \in pods :
      /\ osc.terminations
      /\ ~p.deletion_timestamp
      /\ ~p.terminated
      /\ p.phase \in { Some("Pending"), Some("Running") }
      /\ pods' = (pods \ {p}) \cup { [p EXCEPT !.terminated = TRUE] }
      /\ UNCHANGED << clock, lease, replicas, strims, ingest_vars, uploader_vars >>

\* A pod is deleted from outside the operator: by a user, an eviction or
\* the garbage collector once its owner is gone.
PodDeleted(osc) ==
    \E p \in pods :
      /\ osc.deletions
      /\ ~p.deletion_timestamp
      /\ pods' = (pods \ {p}) \cup { [p EXCEPT !.deletion_timestamp = TRUE] }
      /\ UNCHANGED << clock, lease, replicas, strims, ingest_vars, uploader_vars >>

\* A pod with a deletion timestamp has stopped and is removed.
PodRemoved(osc) ==
    \E p \in pods :
      /\ p.deletion_timestamp
      /\ pods' = pods \ {p}
      /\ UNCHANGED << clock, lease, replicas, strims, ingest_vars, uploader_vars >>

\* The calls of a replica that leads and holds the lease start to fail,
\* early enough for the run to show what follows.
CallsFail(osc) ==
    \E r \in osc.failing :
      /\ replicas[r].failing = None
      /\ replicas[r].pc = "select"
      /\ replicas[r].alive # {}
      /\ lease # None /\ lease[1].holder = r
      /\ clock + renew_every + lease_ttl <= osc.horizon
      /\ replicas' = [replicas EXCEPT ![r].failing = Some(clock)]
      /\ UNCHANGED << clock, lease, strims, pods, ingest_vars, uploader_vars >>

\* ------------------------------------------ operator: specifications
\* The leader loops of the replicas alone.
LeaderScope ==
    [ replicas |-> Replicas, names |-> {}, specs |-> {},
      horizon |-> MaxTicks * renew_every, period |-> renew_every,
      offset |-> [r \in Replicas |-> 0], failing |-> {},
      api_errors |-> TRUE, delays |-> TRUE, shutdown |-> TRUE,
      deletions |-> FALSE, terminations |-> FALSE, pod_phases |-> {},
      fresh_edits |-> FALSE ]

NextLeader ==
    \/ Tick(LeaderScope)
    \/ LeaseResult(LeaderScope)
    \/ ShutdownSignal(LeaderScope)
    \/ Shutdown(LeaderScope)
    \/ MainReturns(LeaderScope)
    \/ Advance(LeaderScope)

SpecLeader == InitRoute /\ [][NextLeader]_vars

\* Leader handoff: replica 1 starts first and its calls start to fail
\* while it leads; replica 2 starts two seconds later. Calls are answered
\* at once; the intervals tick and time goes on.
HandoffScope ==
    [ replicas |-> Replicas, names |-> {}, specs |-> {},
      horizon |-> 2 * MaxTicks * renew_every, period |-> 1,
      offset |-> [r \in Replicas |-> 2 * (r - 1)], failing |-> { 1 },
      api_errors |-> FALSE, delays |-> FALSE, shutdown |-> FALSE,
      deletions |-> FALSE, terminations |-> FALSE, pod_phases |-> {},
      fresh_edits |-> FALSE ]

NextHandoff ==
    \/ Tick(HandoffScope)
    \/ Advance(HandoffScope)
    \/ CallsFail(HandoffScope)

SpecHandoff ==
    /\ InitRoute
    /\ [][NextHandoff]_vars
    /\ WF_vars(Tick(HandoffScope))
    /\ WF_vars(Advance(HandoffScope))

\* The reconciles of one replica against the cluster.
ReconcileScope ==
    [ replicas |-> { 1 }, names |-> StrimNames, specs |-> SpecValues,
      horizon |-> MaxTicks * 3 * renew_every, period |-> 3 * renew_every,
      offset |-> [r \in Replicas |-> 0], failing |-> {},
      api_errors |-> FALSE, delays |-> FALSE, shutdown |-> FALSE,
      deletions |-> TRUE, terminations |-> TRUE,
      pod_phases |-> { "Running", "Succeeded", "Failed", "Unknown" },
      fresh_edits |-> FALSE ]

NextReconcile ==
    \/ Tick(ReconcileScope)
    \/ Advance(ReconcileScope)
    \/ ReconcileStart(ReconcileScope)
    \/ DetermineAction(ReconcileScope)
    \/ PatchStatus(ReconcileScope)
    \/ PodCall(ReconcileScope)
    \/ StrimCreated(ReconcileScope)
    \/ SpecEdited(ReconcileScope)
    \/ StrimDeleted(ReconcileScope)
    \/ PodPhaseChanged(ReconcileScope)
    \/ ContainerTerminated(ReconcileScope)
    \/ PodDeleted(ReconcileScope)
    \/ PodRemoved(ReconcileScope)

SpecReconcile == InitRoute /\ [][NextReconcile]_vars

\* Reconciles racing across a leadership change: two replicas, late
\* answers of try_acquire_or_renew, a cluster that only runs its pods.
RaceScope ==
    [ replicas |-> Replicas, names |-> StrimNames, specs |-> { 1 },
      horizon |-> MaxTicks * renew_every, period |-> renew_every,
      offset |-> [r \in Replicas |-> 0], failing |-> {},
      api_errors |-> FALSE,
      delays |-> TRUE, shutdown |-> FALSE, deletions |-> FALSE,
      terminations |-> FALSE, pod_phases |-> { "Running" },
      fresh_edits |-> FALSE ]

NextRace ==
    \/ Tick(RaceScope)
    \/ LeaseResult(RaceScope)
    \/ Advance(RaceScope)
    \/ ReconcileStart(RaceScope)
    \/ DetermineAction(RaceScope)
    \/ PatchStatus(RaceScope)
    \/ PodCall(RaceScope)
    \/ StrimCreated(RaceScope)
    \/ PodPhaseChanged(RaceScope)

SpecRace == InitRoute /\ [][NextRace]_vars

\* Spec drift: one replica, a cluster whose pods run or fail, edits
\* that give the spec a new value each time. The interval ticks, the
\* controller dispatches and carries on its reconciles, and the kubelet
\* removes a deleted pod.
DriftScope ==
    [ replicas |-> { 1 }, names |-> StrimNames, specs |-> SpecValues,
      horizon |-> MaxTicks * 3 * renew_every, period |-> 3 * renew_every,
      offset |-> [r \in Replicas |-> 0], failing |-> {},
      api_errors |-> FALSE, delays |-> FALSE, shutdown |-> FALSE,
      deletions |-> FALSE, terminations |-> FALSE,
      pod_phases |-> { "Running", "Failed" },
      fresh_edits |-> TRUE ]

NextDrift ==
    \/ Tick(DriftScope)
    \/ Advance(DriftScope)
    \/ ReconcileStart(DriftScope)
    \/ DetermineAction(DriftScope)
    \/ PatchStatus(DriftScope)
    \/ PodCall(DriftScope)
    \/ StrimCreated(DriftScope)
    \/ SpecEdited(DriftScope)
    \/ PodPhaseChanged(DriftScope)
    \/ PodRemoved(DriftScope)

SpecDrift ==
    /\ InitRoute
    /\ [][NextDrift]_vars
    /\ WF_vars(Tick(DriftScope))
    /\ WF_vars(ReconcileStart(DriftScope))
    /\ WF_vars(DetermineAction(DriftScope))
    /\ WF_vars(PatchStatus(DriftScope))
    /\ WF_vars(PodCall(DriftScope))
    /\ WF_vars(PodRemoved(DriftScope))

\* Recovery from the Error phase: one replica, a pod that the kubelet
\* loses sight of (Unknown) and finds again pending or running, and
\* containers that terminate.
RecoverScope ==
    [ replicas |-> { 1 }, names |-> StrimNames, specs |-> SpecValues,
      horizon |-> MaxTicks * 3 * renew_every, period |-> 3 * renew_every,
      offset |-> [r \in Replicas |-> 0], failing |-> {},
      api_errors |-> FALSE, delays |-> FALSE, shutdown |-> FALSE,
      deletions |-> FALSE, terminations |-> TRUE,
      pod_phases |-> { "Pending", "Running", "Unknown" },
      fresh_edits |-> FALSE ]

NextRecover ==
    \/ Tick(RecoverScope)
    \/ Advance(RecoverScope)
    \/ ReconcileStart(RecoverScope)
    \/ DetermineAction(RecoverScope)
    \/ PatchStatus(RecoverScope)
    \/ PodCall(RecoverScope)
    \/ StrimCreated(RecoverScope)
    \/ SpecEdited(RecoverScope)
    \/ PodPhaseChanged(RecoverScope)
    \/ ContainerTerminated(RecoverScope)
    \/ PodRemoved(RecoverScope)

SpecRecover == InitRoute /\ [][NextRecover]_vars

\* Failing calls: one replica whose calls to the cluster API may fail in
\* transport, the lease calls and the calls of its reconciles alike.
FaultScope ==
    [ replicas |-> { 1 }, names |-> StrimNames, specs |-> { 1 },
      horizon |-> MaxTicks * renew_every, period |-> renew_every,
      offset |-> [r \in Replicas |-> 0], failing |-> {},
      api_errors |-> TRUE, delays |-> TRUE, shutdown |-> FALSE,
      deletions |-> FALSE, terminations |-> FALSE,
      pod_phases |-> { "Running", "Failed" },
      fresh_edits |-> FALSE ]

NextFault ==
    \/ Tick(FaultScope)
    \/ LeaseResult(FaultScope)
    \/ Advance(FaultScope)
    \/ ReconcileStart(FaultScope)
    \/ DetermineAction(FaultScope)
    \/ PatchStatus(FaultScope)
    \/ PodCall(FaultScope)
    \/ StrimCreated(FaultScope)
    \/ PodPhaseChanged(FaultScope)
    \/ PodRemoved(FaultScope)

SpecFault == InitRoute /\ [][NextFault]_vars

\* ====================================================== uploader: model
\* peggy (src/peggy/src/app.rs). A path is the sequence of the pieces of
\* its string: names, the separators "/" and the dots of file names.
hls_dir == << "hls" >>
key_prefix == "live/abc/"

Playlist == << "hls", "/", "index", ".", "m3u8" >>
Segment == << "hls", "/", "seg1", ".", "ts" >>
TextTrack == << "hls", "/", "seg1", ".", "vtt" >>
OtherFile == << "hls", "/", "clip", ".", "mp4" >>
HiddenFile == << "hls", "/", ".", "seg2", ".", "ts" >>
SubDir == << "hls", "/", "old" >>
NestedSegment == << "hls", "/", "old", "/", "seg0", ".", "ts" >>

\* The directories below the HLS directory; every other path is a file
\* once it is written.
Directories == { SubDir }

\* The index of the last piece of s equal to piece, 0 without one.
LastIndexOf(s, piece) ==
    IF \E i \in 1 .. Len(s) : s[i] = piece
    THEN CHOOSE i \in 1 .. Len(s) :
           s[i] = piece /\ \A j \in (i + 1) .. Len(s) : s[j] # piece
    ELSE 0

\* Path::file_name: what follows the last separator.
file_name(path) == SubSeq(path, LastIndexOf(path, "/") + 1, Len(path))

\* Path::extension: what follows the last dot of the file name, None
\* without a dot or when the only dot begins the name.
extension(path) ==
    LET name == file_name(path)
        dot == LastIndexOf(name, ".")
    IN IF dot <= 1 THEN None ELSE Some(SubSeq(name, dot + 1, Len(name)))

\* Path::is_dir, and the test of run() for hidden files.
is_dir(path) == path \in Directories
starts_with_dot(path) == file_name(path) # << >> /\ file_name(path)[1] = "."

\* Path::strip_prefix: the path below base, None when it is not below.
strip_prefix(path, base) ==
    IF /\ Len(path) > Len(base) + 1
       /\ SubSeq(path, 1, Len(base)) = base
       /\ path[Len(base) + 1] = "/"
    THEN Some(SubSeq(path, Len(base) + 2, Len(path)))
    ELSE None

\* upload_to_s3: the content type by extension.
mimetype(path) ==
    CASE extension(path) = Some(<< "m3u8" >>) -> "application/vnd.apple.mpegurl"
      [] extension(path) = Some(<< "ts" >>) -> "video/mp2t"
      [] extension(path) = Some(<< "vtt" >>) -> "text/vtt"
      [] OTHER -> "application/octet-stream"

\* upload_to_s3: format!("{}{}", key_prefix, relative_path).
object_key(relative_path) == << key_prefix >> \o relative_path

\* upload_to_s3: the PUT request for the path.
put_object(path) ==
    [key |-> object_key(strip_prefix(path, hls_dir)[1]),
     content_type |-> mimetype(path),
     cache_control |-> "no-cache",
     acl |-> "public-read"]

\* What run() does with a received path: "skip" it, upload and keep it
\* ("upload"), or upload and remove it ("upload_remove").
dispatch(path) ==
    IF is_dir(path) THEN "skip"
    ELSE IF starts_with_dot(path) THEN "skip"
    ELSE IF extension(path) = Some(<< "m3u8" >>) THEN "upload"
    ELSE IF extension(path) = Some(<< "ts" >>) THEN "upload_remove"
    ELSE IF extension(path) = Some(<< "vtt" >>) THEN "upload_remove"
    ELSE "skip"

\* A line of the uploader's output: "uploaded", "removed" or "error".
LogLine(kind, path) == [kind |-> kind, path |-> path]

\* run() of peggy: where the main loop stands ("select", in upload_to_s3
\* before the "put" or before the "remove", "exited"), the path in hand,
\* and the lines printed.
NewUploader == [pc |-> "select", path |-> None, remove |-> FALSE, log |-> << >>]

\* upload_to_s3 from its start to the PUT: Ok(()) at once when the file
\* has no metadata, an error when the path is not below the HLS directory.
begin_upload(up, files, path, remove) ==
    IF path \notin files THEN up
    ELSE IF strip_prefix(path, hls_dir) = None
    THEN [up EXCEPT !.log = Append(@, LogLine("error", path))]
    ELSE [up EXCEPT !.pc = "put", !.path = Some(path), !.remove = remove]

\* As after_put, removing the local file whatever the PUT answered.
after_put_removes_always(up, ok) ==
    IF up.remove
    THEN [up EXCEPT !.pc = "remove",
                    !.log = Append(@, LogLine(IF ok THEN "uploaded"
                                              ELSE "error", up.path[1]))]
    ELSE [up EXCEPT !.pc = "select", !.path = None,
                    !.log = Append(@, LogLine(IF ok THEN "uploaded"
                                              ELSE "error", up.path[1]))]

\* upload_to_s3 after the PUT: an error returns, and run() logs it and
\* goes on; a success is printed and the removal follows if asked for.
after_put(up, ok) ==
    IF ~ok
    THEN [up EXCEPT !.pc = "select", !.path = None,
                    !.log = Append(@, LogLine("error", up.path[1]))]
    ELSE IF up.remove
    THEN [up EXCEPT !.pc = "remove",
                    !.log = Append(@, LogLine("uploaded", up.path[1]))]
    ELSE [up EXCEPT !.pc = "select", !.path = None,
                    !.log = Append(@, LogLine("uploaded", up.path[1]))]

\* Mutant: a blocking send, which waits while the channel is full.
FileEventWaits(usc) ==
    \E path \in usc.paths :
      /\ watcher.watching
      /\ watcher.events < MaxFileEvents
      /\ Len(rx) < MaxQueued
      /\ watcher' = [watcher EXCEPT !.events = @ + 1]
      /\ disk' = IF is_dir(path) THEN disk ELSE disk \cup { path }
      /\ rx' = Append(rx, path)
      /\ UNCHANGED << cancel, bucket, uploader, ingest_vars, operator_vars >>

\* An uploader scope usc bounds a run: the paths the watcher reports,
\* whether a PUT may fail (usc.put_failures) and whether files are
\* removed from outside, as ffmpeg does with old segments
\* (usc.removals).
\* The watcher's callback: a file is created, renamed to or written, or
\* a directory is renamed to; try_send drops the path when the channel
\* is full.
FileEvent(usc) ==
    \E path \in usc.paths :
      /\ watcher.watching
      /\ watcher.events < MaxFileEvents
      /\ watcher' = [watcher EXCEPT !.events = @ + 1]
      /\ disk' = IF is_dir(path) THEN disk ELSE disk \cup { path }
      /\ rx' = IF Len(rx) < MaxQueued THEN Append(rx, path) ELSE rx
      /\ UNCHANGED << cancel, bucket, uploader, ingest_vars, operator_vars >>

\* A file is removed from outside; the watcher's filter drops the event.
FileRemoved(usc) ==
    \E path \in disk :
      /\ usc.removals
      /\ disk' = disk \ { path }
      /\ UNCHANGED << cancel, watcher, rx, bucket, uploader, ingest_vars,
                      operator_vars >>

\* shutdown_signal() returns and the token is cancelled.
Cancel ==
    /\ ~cancel
    /\ cancel' = TRUE
    /\ UNCHANGED << watcher, rx, disk, bucket, uploader, ingest_vars,
                    operator_vars >>

\* The watcher task sees the cancellation and drops the watcher.
WatcherStops ==
    /\ cancel
    /\ watcher.watching
    /\ watcher' = [watcher EXCEPT !.watching = FALSE]
    /\ UNCHANGED << cancel, rx, disk, bucket, uploader, ingest_vars,
                    operator_vars >>

\* run(): select! takes the cancelled branch and the loop breaks.
LoopExits ==
    /\ uploader.pc = "select"
    /\ cancel
    /\ uploader' = [uploader EXCEPT !.pc = "exited"]
    /\ UNCHANGED << cancel, watcher, rx, disk, bucket, ingest_vars,
                    operator_vars >>

\* Mutant: the path queued last is received first.
RecvNewest(usc) ==
    /\ uploader.pc = "select"
    /\ rx # << >>
    /\ rx' = SubSeq(rx, 1, Len(rx) - 1)
    /\ uploader' =
         CASE dispatch(rx[Len(rx)]) = "skip" -> uploader
           [] dispatch(rx[Len(rx)]) = "upload" ->
                begin_upload(uploader, disk, rx[Len(rx)], FALSE)
           [] dispatch(rx[Len(rx)]) = "upload_remove" ->
                begin_upload(uploader, disk, rx[Len(rx)], TRUE)
    /\ UNCHANGED << cancel, watcher, disk, bucket, ingest_vars,
                    operator_vars >>

\* run(): select! takes the recv branch, which is ready whenever a path
\* is queued; select! chooses among its ready branches at random.
Recv(usc) ==
    /\ uploader.pc = "select"
    /\ rx # << >>
    /\ rx' = Tail(rx)
    /\ uploader' =
         CASE dispatch(Head(rx)) = "skip" -> uploader
           [] dispatch(Head(rx)) = "upload" ->
                begin_upload(uploader, disk, Head(rx), FALSE)
           [] dispatch(Head(rx)) = "upload_remove" ->
                begin_upload(uploader, disk, Head(rx), TRUE)
    /\ UNCHANGED << cancel, watcher, disk, bucket, ingest_vars,
                    operator_vars >>

\* upload_to_s3: the file is read and the PUT is answered. It fails when
\* the file is gone by now or the object store refuses.
Put(usc) ==
    \E ok \in BOOLEAN :
      /\ uploader.pc = "put"
      /\ ok => uploader.path[1] \in disk
      /\ ~ok => usc.put_failures \/ uploader.path[1] \notin disk
      /\ bucket' = IF ok
                   THEN MapInsert(bucket, put_object(uploader.path[1]).key,
                                  put_object(uploader.path[1]))
                   ELSE bucket
      /\ uploader' = after_put(uploader, ok)
      /\ UNCHANGED << cancel, watcher, rx, disk, ingest_vars,
                      operator_vars >>

\* upload_to_s3: remove_file after the upload; an error when the file is
\* gone.
Remove(usc) ==
    /\ uploader.pc = "remove"
    /\ disk' = disk \ { uploader.path[1] }
    /\ uploader' = [uploader EXCEPT
           !.pc = "select", !.path = None,
           !.log = Append(@, LogLine(IF uploader.path[1] \in disk
                                     THEN "removed" ELSE "error",
                                     uploader.path[1]))]
    /\ UNCHANGED << cancel, watcher, rx, bucket, ingest_vars,
                    operator_vars >>

UploadScope ==
    [ paths |-> { Playlist, Segment, TextTrack, OtherFile, HiddenFile,
                  SubDir, NestedSegment },
      put_failures |-> TRUE, removals |-> TRUE ]

NextUpload ==
    \/ FileEvent(UploadScope)
    \/ FileRemoved(UploadScope)
    \/ Cancel
    \/ WatcherStops
    \/ LoopExits
    \/ Recv(UploadScope)
    \/ Put(UploadScope)
    \/ Remove(UploadScope)

SpecUpload == InitRoute /\ [][NextUpload]_vars

\* The listener: accepts that succeed and accepts that fail, next to
\* connections that publish and play one stream key.
AcceptScope ==
    [ max_conns |-> MaxConns,
      max_events |-> MaxEvents,
      targets |-> { <<"live", "abc">> },
      play_keys |-> { "abc" },
      media |-> { <<"Video", <<23, 1>> >> },
      oks |-> { TRUE },
      send_failures |-> FALSE ]

NextAccept ==
    \/ AcceptConnection(AcceptScope)
    \/ AcceptFails
    \/ SocketClosed
    \/ BeginRead
    \/ PublishRequested(AcceptScope)
    \/ PlayRequested(AcceptScope)
    \/ AudioVideoData(AcceptScope)
    \/ EndRead

SpecAccept == InitRoute /\ [][NextAccept]_vars

\* Classification of one payload out of PayloadInputs.
InitClassify ==
    /\ InitProcesses
    /\ server = NewServer(FALSE)
    /\ classified \in { [data |-> data, class |-> None] :
                           data \in PayloadInputs }

NextClassify == Classify

SpecClassify == InitClassify /\ [][NextClassify]_vars

\* Shutdown of the three processes: the ingest server with one connection
\* at a time, one operator replica whose calls are answered at once, and
\* the uploader with one segment. The loops are scheduled fairly: a loop
\* that can observe its token does so, and an upload that was started is
\* carried on.
ShutdownScope ==
    [ max_conns |-> 1,
      replicas |-> { 1 }, names |-> {}, specs |-> {},
      horizon |-> 2 * renew_every, period |-> renew_every,
      offset |-> [r \in Replicas |-> 0], failing |-> {},
      api_errors |-> FALSE, delays |-> FALSE, shutdown |-> TRUE,
      deletions |-> FALSE, terminations |-> FALSE, pod_phases |-> {},
      fresh_edits |-> FALSE,
      paths |-> { Segment }, put_failures |-> FALSE, removals |-> FALSE ]

NextShutdown ==
    \/ AcceptConnection(ShutdownScope)
    \/ SocketClosed
    \/ IngestCancelled
    \/ LoopBails
    \/ Tick(ShutdownScope)
    \/ Advance(ShutdownScope)
    \/ ShutdownSignal(ShutdownScope)
    \/ Shutdown(ShutdownScope)
    \/ MainReturns(ShutdownScope)
    \/ FileEvent(ShutdownScope)
    \/ Cancel
    \/ WatcherStops
    \/ LoopExits
    \/ Recv(ShutdownScope)
    \/ Put(ShutdownScope)
    \/ Remove(ShutdownScope)

SpecShutdown ==
    /\ InitRoute
    /\ [][NextShutdown]_vars
    /\ WF_vars(LoopBails)
    /\ WF_vars(Shutdown(ShutdownScope))
    /\ WF_vars(MainReturns(ShutdownScope))
    /\ WF_vars(LoopExits)
    /\ WF_vars(Recv(ShutdownScope))
    /\ WF_vars(Put(ShutdownScope))
    /\ WF_vars(Remove(ShutdownScope))

\* ================================================================ claims
\* A step in which a session event was handled; hist'.last describes it.
EventStep(op) == hist'.events = hist.events + 1 /\ hist'.last.op = op

ClientOf(s, connection_id) == s.connection_to_client_map[connection_id]

\* C1. Duplicate publish rejection: a publish request for a stream key
\* whose channel has a publishing_client_id yields DisconnectConnection
\* for the requesting connection and nothing else: no request is
\* accepted, the Server (channels, every client's action and session,
\* connection_gc) is as before and no task is spawned.
C1_DuplicatePublishRejected ==
    [][ ( /\ EventStep("publish")
          /\ hist'.last.key \in DOMAIN server.channels
          /\ server.channels[hist'.last.key].publishing_client_id # None )
        => /\ server_results' =
                  Append(server_results, DisconnectConnection(reading[1]))
           /\ server' = server
           /\ tasks' = tasks ]_vars

\* A second connection's publish was rejected while the first publisher,
\* tracked in connection_gc, goes on publishing the key.
C1_Witness ==
    /\ reading # None
    /\ hist.last.op = "publish"
    /\ hist.last.arg.outcome = "rejected"
    /\ server_results # << >>
    /\ server_results[Len(server_results)].type = "DisconnectConnection"
    /\ server_results[Len(server_results)].connection_id = reading[1]
    /\ LET k == hist.last.key
           p == server.channels[k].publishing_client_id[1]
       IN /\ p \in DOMAIN server.clients
          /\ server.clients[p].connection_id # reading[1]
          /\ server.clients[p].current_action = Publishing(k)
          /\ k \in server.clients[p].session.publishing
          /\ DOMAIN server.connection_gc = { server.clients[p].connection_id }

\* C2. For every stream key at most one live client has the action
\* Publishing(k), and it is the client the channel's publishing_client_id
\* names.
C2_SinglePublisher ==
    \A k \in Keys : \A c1, c2 \in DOMAIN server.clients :
        ( /\ server.clients[c1].current_action = Publishing(k)
          /\ server.clients[c2].current_action = Publishing(k) )
        => /\ c1 = c2
           /\ k \in DOMAIN server.channels
           /\ server.channels[k].publishing_client_id = Some(c1)

\* Two publishers of different keys are live and the second one's request
\* for the first one's key has just been rejected.
C2_Witness ==
    /\ reading # None
    /\ hist.last.op = "publish"
    /\ hist.last.arg.outcome = "rejected"
    /\ \E c1, c2 \in DOMAIN server.clients :
         /\ c1 # c2
         /\ server.clients[c2].connection_id = reading[1]
         /\ server.clients[c1].current_action = Publishing(hist.last.key)
         /\ server.clients[c2].current_action.type = "Publishing"
         /\ server.clients[c2].current_action.stream_key # hist.last.key

\* The packets bound for the connection with token t, oldest first: those
\* enqueued on it, then those of the results not drained yet.
Undrained(t) ==
    SelectSeq(server_results,
              LAMBDA r : r.type = "OutboundPacket"
                         /\ r.target_connection_id = t)

Outbound(t) ==
    connections.slots[t].queue
        \o [i \in 1 .. Len(Undrained(t)) |-> Undrained(t)[i].packet]

\* Video packets by their first two bytes.
VideoHeaderPacket(p) ==
    p.kind = "video" /\ Len(p.data) >= 2 /\ p.data[1] = 23 /\ p.data[2] = 0

KeyframePacket(p) ==
    p.kind = "video" /\ Len(p.data) >= 2 /\ p.data[1] = 23 /\ p.data[2] # 0

InterFramePacket(p) ==
    p.kind = "video" /\ ~VideoHeaderPacket(p) /\ ~KeyframePacket(p)

\* C3. Among the packets bound for a connection, every video packet that
\* is neither a sequence header nor a keyframe comes after a keyframe.
C3_KeyframeBeforeInterFrame ==
    \A t \in DOMAIN connections.slots :
        \A i \in 1 .. Len(Outbound(t)) :
            InterFramePacket(Outbound(t)[i])
            => \E j \in 1 .. (i - 1) : KeyframePacket(Outbound(t)[j])

IsPrefix(s, u) == Len(s) <= Len(u) /\ SubSeq(u, 1, Len(s)) = s

\* What an accepted play of stream_key on stream_id is to queue, given
\* the channel map before the request.
JoinPackets(channels, stream_key, stream_id) ==
    << Response("play_accepted") >>
    \o (IF stream_key \in DOMAIN channels
           /\ channels[stream_key].metadata # None
        THEN << [ kind |-> "metadata", stream_id |-> stream_id,
                  data |-> channels[stream_key].metadata, timestamp |-> 0,
                  key |-> stream_key, seq |-> 0 ] >>
        ELSE << >>)
    \o (IF stream_key \in DOMAIN channels
           /\ channels[stream_key].video_sequence_header # None
        THEN << [ kind |-> "video", stream_id |-> stream_id,
                  data |-> channels[stream_key].video_sequence_header[1],
                  timestamp |-> 0, key |-> stream_key, seq |-> 0 ] >>
        ELSE << >>)
    \o (IF stream_key \in DOMAIN channels
           /\ channels[stream_key].audio_sequence_header # None
        THEN << [ kind |-> "audio", stream_id |-> stream_id,
                  data |-> channels[stream_key].audio_sequence_header[1],
                  timestamp |-> 0, key |-> stream_key, seq |-> 0 ] >>
        ELSE << >>)

\* C4. An accepted play request appends to the results, for the viewer's
\* connection and in this order, the accept response, the channel's
\* metadata if any, its video sequence header at timestamp 0 if any and
\* its audio sequence header at timestamp 0 if any; and the packets bound
\* for a connection only ever grow at the end, so that whatever is routed
\* to the viewer later comes after them.
C4_JoinOrder ==
    [][ /\ ( EventStep("play") /\ hist'.last.arg.ok )
           => LET join == JoinPackets(server.channels, hist'.last.key,
                                      hist'.last.arg.stream_id)
              IN server_results' = server_results
                     \o [i \in 1 .. Len(join) |->
                            OutboundPacket(reading[1], join[i])]
        /\ ~panicked'
           => \A t \in DOMAIN connections.slots
                        \cap DOMAIN connections'.slots :
                  IsPrefix(Outbound(t), Outbound(t)') ]_vars

\* A viewer's connection holds the accept response, the metadata, the
\* video header and the audio header, in a row, and then a packet of the
\* publisher that arrived after the join.
C4_Witness ==
    \E t \in DOMAIN connections.slots :
        \E i \in 1 .. (Len(Outbound(t)) - 4) :
            /\ Outbound(t)[i].kind = "play_accepted"
            /\ Outbound(t)[i + 1].kind = "metadata"
            /\ VideoHeaderPacket(Outbound(t)[i + 2])
            /\ Outbound(t)[i + 2].timestamp = 0
            /\ Outbound(t)[i + 3].kind = "audio"
            /\ Outbound(t)[i + 3].data = << 175, 0 >>
            /\ Outbound(t)[i + 3].timestamp = 0
            /\ Outbound(t)[i + 4].seq > 0
            /\ Outbound(t)[i + 4].timestamp > 0

\* C5. Among the packets bound for a connection, the audio/video packets
\* routed from a channel's publisher stand in the order in which the
\* publisher's packets arrived (seq is the arrival number).
C5_ArrivalOrder ==
    \A t \in DOMAIN connections.slots :
        \A i, j \in 1 .. Len(Outbound(t)) :
            ( /\ i < j
              /\ Outbound(t)[i].seq > 0
              /\ Outbound(t)[j].seq > 0
              /\ Outbound(t)[i].key = Outbound(t)[j].key )
            => Outbound(t)[i].seq < Outbound(t)[j].seq

\* Two packets of the publisher have been enqueued on the connection of
\* a watcher that publishes nothing.
C5_Witness ==
    \E t \in DOMAIN connections.slots :
        /\ t \in DOMAIN server.connection_to_client_map
        /\ server.clients[ClientOf(server, t)].session.publishing = {}
        /\ server.clients[ClientOf(server, t)].current_action.type = "Watching"
        /\ \E i, j \in 1 .. Len(connections.slots[t].queue) :
             /\ i < j
             /\ connections.slots[t].queue[i].seq > 0
             /\ connections.slots[t].queue[j].seq
                    > connections.slots[t].queue[i].seq

\* The results the step appended.
NewResults ==
    SubSeq(server_results', Len(server_results) + 1, Len(server_results'))

\* The step appended, for the connection, the publisher's packet seq.
SentTo(connection_id, seq) ==
    \E i \in 1 .. Len(NewResults) :
        /\ NewResults[i].type = "OutboundPacket"
        /\ NewResults[i].target_connection_id = connection_id
        /\ NewResults[i].packet.seq = seq

\* The step appended a DisconnectConnection for the connection.
DisconnectEnqueued(connection_id) ==
    \E i \in 1 .. Len(NewResults) :
        /\ NewResults[i].type = "DisconnectConnection"
        /\ NewResults[i].connection_id = connection_id

\* The step appended nothing for the connection.
NothingFor(connection_id) ==
    \A i \in 1 .. Len(NewResults) :
        /\ NewResults[i].type = "OutboundPacket"
           => NewResults[i].target_connection_id # connection_id
        /\ NewResults[i].type = "DisconnectConnection"
           => NewResults[i].connection_id # connection_id

VideoStep == EventStep("data") /\ hist'.last.arg.data_type = "Video"

\* C6 as stated. For a video packet of a channel's publisher, every
\* client of the channel's watcher set is sent the packet or is enqueued
\* for disconnect.
C6_FanOutComplete ==
    [][ VideoStep
        => \A c \in server.channels[hist'.last.key].watching_client_ids :
              /\ c \in DOMAIN server.clients
              /\ \/ SentTo(server.clients[c].connection_id,
                            hist'.last.arg.seq)
                 \/ DisconnectEnqueued(server.clients[c].connection_id)
      ]_vars

\* The watcher is a live client in the Watching action and either has
\* been marked as having a keyframe or the payload is a sequence header
\* or a keyframe.
Eligible(c, data) ==
    /\ c \in DOMAIN server.clients
    /\ server.clients[c].current_action.type = "Watching"
    /\ \/ server.clients[c].has_received_video_keyframe
       \/ (Len(data) >= 2 /\ data[1] = 23)

\* C6, amended. For a video packet of a channel's publisher, every
\* eligible client of the watcher set is sent the packet or is enqueued
\* for disconnect, and the step appends nothing for any other client of
\* the set.
C6_FanOutToEligible ==
    [][ VideoStep
        => \A c \in server.channels[hist'.last.key].watching_client_ids :
              IF Eligible(c, hist'.last.arg.data)
              THEN \/ SentTo(server.clients[c].connection_id,
                             hist'.last.arg.seq)
                   \/ DisconnectEnqueued(server.clients[c].connection_id)
              ELSE c \in DOMAIN server.clients
                   => NothingFor(server.clients[c].connection_id)
      ]_vars

\* A keyframe has just been fanned out to two watchers: one was sent it,
\* the send to the other failed.
C6_Witness ==
    /\ reading # None
    /\ hist.last.op = "data"
    /\ hist.last.arg.data_type = "Video"
    /\ hist.last.arg.data = << 23, 1 >>
    /\ Cardinality(server.channels[hist.last.key].watching_client_ids) = 2
    /\ \E i, j \in 1 .. Len(server_results) :
         /\ server_results[i].type = "OutboundPacket"
         /\ server_results[i].packet.seq = hist.last.arg.seq
         /\ server_results[i].target_connection_id # reading[1]
         /\ server_results[j].type = "DisconnectConnection"
         /\ server_results[j].connection_id # reading[1]

\* The connections the step closed, and their clients.
ClosedTokens == DOMAIN connections.slots \ DOMAIN connections'.slots

ClosedClients ==
    { ClientOf(server, t) :
        t \in ClosedTokens \cap DOMAIN server.connection_to_client_map }

\* C7. When the connection of a client in the action Publishing(k)
\* closes, the channel of k loses its publishing_client_id and metadata
\* and keeps its sequence headers and its watcher set (less the watchers
\* whose connections close in the same sweep); and a publish request for
\* a key whose channel has no publishing_client_id, accept_request
\* succeeding, makes the requester the publisher of the channel as it
\* was left.
C7_PublisherCloseKeepsChannel ==
    [][ /\ \A c \in ClosedClients :
             server.clients[c].current_action.type = "Publishing"
             => LET k == server.clients[c].current_action.stream_key
                    before == server.channels[k]
                    after == server'.channels[k]
                IN /\ after.publishing_client_id = None
                   /\ after.metadata = None
                   /\ after.video_sequence_header
                          = before.video_sequence_header
                   /\ after.audio_sequence_header
                          = before.audio_sequence_header
                   /\ after.watching_client_ids
                          = before.watching_client_ids \
                              { w \in ClosedClients :
                                  /\ server.clients[w].current_action.type
                                         = "Watching"
                                  /\ server.clients[w].current_action
                                         .stream_key = k }
        /\ ( /\ EventStep("publish")
              /\ hist'.last.arg.outcome = "accepted"
              /\ hist'.last.key \in DOMAIN server.channels
              /\ server.channels[hist'.last.key].publishing_client_id = None )
           => LET k == hist'.last.key
                  c == ClientOf(server, reading[1])
              IN /\ server'.channels[k] =
                        [server.channels[k] EXCEPT
                            !.publishing_client_id = Some(c)]
                 /\ server'.clients[c].current_action = Publishing(k)
                 /\ k \in server'.clients[c].session.publishing
                 /\ server_results'[Len(server_results')] =
                        OutboundPacket(reading[1],
                                       Response("publish_accepted"))
      ]_vars

\* A publish request has just been accepted on a channel that still holds
\* the video sequence header of a publisher whose connection closed.
C7_Witness ==
    /\ reading # None
    /\ hist.last.op = "publish"
    /\ hist.last.arg.outcome = "accepted"
    /\ LET channel == server.channels[hist.last.key]
       IN /\ channel.video_sequence_header # None
          /\ channel.metadata = None
          /\ channel.publishing_client_id
                 = Some(ClientOf(server, reading[1]))

\* C8. Once every connection has closed and every spawned cluster-API
\* task has run, the cluster API holds no Strim record.
C8_RecordsDeletedAfterClose ==
    ( /\ ~panicked
      /\ tasks = {}
      /\ DOMAIN connections.slots = {} )
    => records = {}

\* The publish step spawned a create task / registered a record name for
\* the requesting connection in connection_gc.
CreateEnqueued == \E task \in tasks' \ tasks : task.op = "create"

GcRegistered ==
    /\ reading[1] \in DOMAIN server'.connection_gc
    /\ \/ reading[1] \notin DOMAIN server.connection_gc
       \/ server'.connection_gc[reading[1]]
             # server.connection_gc[reading[1]]

\* C9. A publish request spawns the creation of a Strim record, and
\* registers the record for the connection in connection_gc, exactly
\* when the request was accepted (not rejected, accept_request Ok) and a
\* target is configured.
C9_CreateOnlyWhenAccepted ==
    [][ EventStep("publish")
        => /\ CreateEnqueued
                <=> (hist'.last.arg.outcome = "accepted" /\ server.target)
           /\ GcRegistered <=> CreateEnqueued ]_vars

\* The connections on which the session event of the step met an error
\* (for a publish request, also the rejection of C1).
ErrorConnections ==
    LET last == hist'.last
    IN CASE last.op \in {"data", "metadata"} ->
              { server.clients[c].connection_id : c \in last.arg.fails }
         [] last.op = "play" ->
              IF last.arg.ok THEN {} ELSE { reading[1] }
         [] last.op = "connect" ->
              IF last.arg THEN {} ELSE { reading[1] }
         [] last.op = "publish" ->
              IF last.arg.outcome = "accepted" THEN {} ELSE { reading[1] }
         [] OTHER -> {}

MarkedForClose(results) ==
    { results[i].connection_id :
        i \in { j \in 1 .. Len(results) :
                  results[j].type = "DisconnectConnection" } }

\* A session event marks for close the connections with an error, and
\* no other; a failing send changes no client's action and no channel's
\* publisher or watcher set.
ErrorMarksThatConnection ==
    hist'.events = hist.events + 1
    => /\ MarkedForClose(NewResults) = ErrorConnections
       /\ connections' = connections
       /\ hist'.last.op \in {"data", "metadata"}
          => /\ \A c \in DOMAIN server.clients :
                   /\ c \in DOMAIN server'.clients
                   /\ server'.clients[c].current_action
                         = server.clients[c].current_action
             /\ \A k \in DOMAIN server.channels :
                   /\ server'.channels[k].publishing_client_id
                         = server.channels[k].publishing_client_id
                   /\ server'.channels[k].watching_client_ids
                         = server.channels[k].watching_client_ids

\* A step that closes connections closes the marked ones only (a failed
\* read or a closed socket: one), and every other connection keeps its
\* client, the client's action, its place in the channels and the packets
\* bound for it.
CloseLeavesOthers ==
    ( ClosedTokens # {} /\ ~panicked' )
    => /\ IF reading = None THEN Cardinality(ClosedTokens) = 1
          ELSE ClosedTokens = MarkedForClose(server_results)
       /\ \A t \in DOMAIN connections'.slots :
             /\ t \in DOMAIN connections.slots
             /\ connections'.slots[t].queue = Outbound(t)
             /\ t \in DOMAIN server.connection_to_client_map
                => LET c == ClientOf(server, t)
                   IN /\ t \in DOMAIN server'.connection_to_client_map
                      /\ ClientOf(server', t) = c
                      /\ server'.clients[c].current_action
                            = server.clients[c].current_action
                      /\ \A k \in DOMAIN server.channels :
                            /\ c \in server'.channels[k].watching_client_ids
                               <=> c \in server.channels[k].watching_client_ids
                            /\ server'.channels[k].publishing_client_id
                                    = Some(c)
                               <=> server.channels[k].publishing_client_id
                                    = Some(c)

\* C10 as stated. A session-level error marks exactly that connection
\* for close, the other connections are unaffected, and the connection
\* whose packet or metadata met a failing send is not marked.
C10_ErrorIsolatedPublisherKept ==
    [][ /\ ErrorMarksThatConnection
        /\ CloseLeavesOthers
        /\ ( hist'.events = hist.events + 1
              /\ hist'.last.op \in {"data", "metadata"} )
           => reading[1] \notin MarkedForClose(NewResults) ]_vars

\* C10, amended. As above, but the sending connection is marked when,
\* and only when, it is itself a watcher whose send failed.
C10_ErrorIsolated ==
    [][ /\ ErrorMarksThatConnection
        /\ CloseLeavesOthers
        /\ ( hist'.events = hist.events + 1
              /\ hist'.last.op \in {"data", "metadata"} )
           => ( reading[1] \in MarkedForClose(NewResults)
                <=> ClientOf(server, reading[1]) \in hist'.last.arg.fails )
      ]_vars

\* Metadata has just been fanned out to two watchers on other
\* connections: the send to one failed and marked it, the other was sent
\* the metadata, and the publisher is not marked.
C10_Witness ==
    /\ reading # None
    /\ hist.last.op = "metadata"
    /\ Cardinality(hist.last.arg.fails) = 1
    /\ ClientOf(server, reading[1]) \notin hist.last.arg.fails
    /\ server.clients[ClientOf(server, reading[1])].current_action
          = Publishing(hist.last.key)
    /\ MarkedForClose(server_results)
          = { server.clients[c].connection_id : c \in hist.last.arg.fails }
    /\ \E i \in 1 .. Len(server_results) :
         /\ server_results[i].type = "OutboundPacket"
         /\ server_results[i].packet.kind = "metadata"
         /\ server_results[i].target_connection_id
               \notin MarkedForClose(server_results) \cup { reading[1] }

\* ---------------------------------------------------------------- C11
\* Steps of replica r's reconcile of the Strim called name.
Reconciling(r, name) == name \in DOMAIN replicas[r].reconciles
ReconcileOf(r, name) == replicas[r].reconciles[name]
StillRunning(r) == replicas'[r].alive = replicas[r].alive

\* The read phase ends: an action is chosen.
DetermineStep(r, name) ==
    /\ Reconciling(r, name)
    /\ ReconcileOf(r, name).pc = "read"
    /\ StillRunning(r)
    /\ replicas'[r].reconciles # replicas[r].reconciles

Chosen(r, name, action) ==
    IF action \in { NoOp, Requeue }
    THEN /\ name \notin DOMAIN replicas'[r].reconciles
         /\ replicas'[r].returned[name] = "Ok"
    ELSE /\ name \in DOMAIN replicas'[r].reconciles
         /\ replicas'[r].reconciles[name].action = action

\* The status patch of the write phase is answered.
PatchStep(r, name) ==
    /\ Reconciling(r, name)
    /\ ReconcileOf(r, name).pc = "write"
    /\ StillRunning(r)
    /\ replicas'[r].reconciles # replicas[r].reconciles

Patched(r, name) ==
    IF ReconcileOf(r, name).action \in { CreatePod, DeletePod }
    THEN name \in DOMAIN replicas'[r].reconciles
    ELSE replicas'[r].returned[name] = "Ok"

\* The pod call of the write phase is answered.
PodStep(r, name) ==
    /\ Reconciling(r, name)
    /\ ReconcileOf(r, name).pc = "pod"
    /\ StillRunning(r)
    /\ replicas'[r].reconciles # replicas[r].reconciles

PodNamed(name) == \E p \in pods : p.name = name

\* The pod's spec-hash annotation is the hash h.
CarriesHash(p, h) ==
    /\ p.annotations # None
    /\ SPEC_HASH \in DOMAIN p.annotations[1]
    /\ p.annotations[1][SPEC_HASH] = h

\* C11: the read phase chooses CreatePod exactly when the instance has no
\* deletion timestamp and no pod of its name exists; create_pod then
\* leaves status.phase Starting, the pod it creates is annotated with
\* the hash of the instance's spec, and on a 409 it returns Ok and
\* creates nothing.
C11_CreatePod ==
    [][\A r \in Replicas, name \in StrimNames :
         /\ DetermineStep(r, name) =>
              (Chosen(r, name, CreatePod)
                 <=> /\ ~ReconcileOf(r, name).instance.deletion_timestamp
                     /\ ~PodNamed(name))
         /\ (PatchStep(r, name) /\ ReconcileOf(r, name).action = CreatePod
             /\ Patched(r, name)) =>
              /\ strims'[name].status # None
              /\ strims'[name].status[1].phase = "Starting"
         /\ (PodStep(r, name) /\ ReconcileOf(r, name).action = CreatePod) =>
              /\ \A p \in pods' \ pods :
                   /\ p.name = name
                   /\ CarriesHash(p,
                          hash_spec(ReconcileOf(r, name).instance.spec))
              /\ PodNamed(name) =>
                   /\ pods' = pods
                   /\ replicas'[r].returned[name] = "Ok"
    ]_vars

\* ---------------------------------------------------------------- C12
PodOf(name) == CHOOSE p \in pods : p.name = name

\* The pod of that name must go: its hash annotation differs from the
\* hash of the instance's spec, it has succeeded or failed, or one of its
\* containers is terminated.
MustDelete(instance, pod) ==
    \/ ~CarriesHash(pod, hash_spec(instance.spec))
    \/ pod.phase \in { Some("Succeeded"), Some("Failed") }
    \/ pod.terminated

\* C12: when neither the instance nor its pod has a deletion timestamp
\* and the pod must go, the read phase chooses DeletePod; delete_pod
\* leaves status.phase Pending, marks the pod deleted and returns Ok,
\* also when the pod is gone already (404).
C12_DeletePod ==
    [][\A r \in Replicas, name \in StrimNames :
         /\ (DetermineStep(r, name)
             /\ ~ReconcileOf(r, name).instance.deletion_timestamp
             /\ PodNamed(name)
             /\ ~PodOf(name).deletion_timestamp
             /\ MustDelete(ReconcileOf(r, name).instance, PodOf(name))) =>
              Chosen(r, name, DeletePod)
         /\ (PatchStep(r, name) /\ ReconcileOf(r, name).action = DeletePod
             /\ Patched(r, name)) =>
              /\ strims'[name].status # None
              /\ strims'[name].status[1].phase = "Pending"
         /\ (PodStep(r, name) /\ ReconcileOf(r, name).action = DeletePod) =>
              /\ replicas'[r].returned[name] = "Ok"
              /\ \A p \in pods' : p.name = name => p.deletion_timestamp
    ]_vars

\* ---------------------------------------------------------------- C13
\* The Strim's pod runs with a hash annotation that is not the hash of
\* the stored spec.
Drifted(name) ==
    /\ name \in DOMAIN strims
    /\ \E p \in pods : /\ p.name = name
                       /\ p.phase = Some("Running")
                       /\ ~CarriesHash(p, hash_spec(strims[name].spec))

Recreated(name) ==
    /\ name \in DOMAIN strims
    /\ \E p \in pods : /\ p.name = name
                       /\ CarriesHash(p, hash_spec(strims[name].spec))

\* C13: a reconcile that finds the pod annotated with another hash than
\* that of the instance's spec chooses DeletePod and writes phase
\* Pending; a CreatePod annotates the pod with the hash of the
\* instance's spec; and once the running pod's hash differs from that
\* of the stored spec, a pod annotated with the hash of the stored spec
\* exists eventually.
C13_DriftRecreation ==
    /\ [][\A r \in Replicas, name \in StrimNames :
            /\ (DetermineStep(r, name) /\ PodNamed(name)
                /\ ~ReconcileOf(r, name).instance.deletion_timestamp
                /\ ~PodOf(name).deletion_timestamp
                /\ ~CarriesHash(PodOf(name),
                                hash_spec(ReconcileOf(r, name).instance.spec)))
                 => Chosen(r, name, DeletePod)
            /\ (PatchStep(r, name) /\ ReconcileOf(r, name).action = DeletePod
                /\ Patched(r, name))
                 => strims'[name].status[1].phase = "Pending"
            /\ (PodStep(r, name) /\ ReconcileOf(r, name).action = CreatePod)
                 => \A p \in pods' \ pods :
                       CarriesHash(p,
                           hash_spec(ReconcileOf(r, name).instance.spec))
       ]_vars
    /\ \A name \in StrimNames : Drifted(name) ~> Recreated(name)

\* The spec was edited under a running pod, and the reconcile that found
\* the drift has written phase Pending and is about to delete the pod.
C13_Witness ==
    \E r \in Replicas, name \in StrimNames :
      /\ Drifted(name)
      /\ Reconciling(r, name)
      /\ ReconcileOf(r, name).pc = "pod"
      /\ ReconcileOf(r, name).action = DeletePod
      /\ ReconcileOf(r, name).instance.spec = strims[name].spec
      /\ strims[name].status[1].phase = "Pending"

\* ---------------------------------------------------------------- C14
\* One reconcile of the Strim called name in the cluster c (its Strims and
\* pods) with every call answered, and the action its read phase chooses.
ActionIn(c, name) ==
    determine_action(c.strims[name], get_pod(c.pods, name), clock)

Writes(c, name) == ActionIn(c, name) \notin { NoOp, Requeue, Err }

ReconcileOnce(c, name) ==
    LET action == ActionIn(c, name)
        patched == patch_status(c.strims, name, c.strims[name],
                                WrittenPhase(action), clock)
    IN IF ~Writes(c, name) THEN c
       ELSE [strims |-> patched.strims,
             pods |-> IF action = CreatePod
                      THEN create_pod(c.pods, name, c.strims[name]).pods
                      ELSE IF action = DeletePod
                      THEN delete_pod(c.pods, name).pods
                      ELSE c.pods]

\* Within k reconciles of name, nothing else changing, one writes nothing.
RECURSIVE QuietWithin(_, _, _)
QuietWithin(k, c, name) ==
    \/ ~Writes(c, name)
    \/ k > 0 /\ QuietWithin(k - 1, ReconcileOnce(c, name), name)

\* C14: from every state of the cluster, reconciles of a Strim that run
\* with no change from outside come to one that writes nothing (three
\* reconciles are looked at).
C14_ReconcileConverges ==
    \A name \in DOMAIN strims :
      QuietWithin(3, [strims |-> strims, pods |-> pods], name)

\* ---------------------------------------------------------------- C15
WorkerPods(name) == { p \in pods : p.name = name \/ p.owner = name }

Leading(r) == replicas[r].alive # {}

\* C16: at most one replica has a running controller task.
C16_SingleLeader ==
    Cardinality({ r \in Replicas : Leading(r) }) <= 1

\* ---------------------------------------------------------------- C17
\* The replica's loop comes back from try_acquire_or_renew with result.
LeaseHandled(r, result) ==
    /\ replicas[r].pc = "acquire"
    /\ replicas'[r].pc = "select"
    /\ replicas[r].result = Some(result)

Started(r) == replicas'[r].alive \ replicas[r].alive

\* C17: a replica's controller task follows its last lease result. A task
\* starts only when the result is "acquired" and no task is held; with
\* "acquired" a held task keeps running; with an error or "not acquired"
\* no task runs after the step; a task that was aborted never runs again
\* (a started task is a new one), and at most one task runs.
C17_TaskFollowsLease ==
    [][\A r \in Replicas :
         /\ Started(r) # {} =>
              /\ LeaseHandled(r, "acquired")
              /\ replicas[r].alive = {}
              /\ Started(r) = { replicas[r].spawned + 1 }
         /\ LeaseHandled(r, "acquired") =>
              /\ replicas'[r].alive # {}
              /\ replicas[r].alive \subseteq replicas'[r].alive
         /\ LeaseHandled(r, "err") \/ LeaseHandled(r, "not_acquired") =>
              replicas'[r].alive = {}
         /\ replicas'[r].spawned >= replicas[r].spawned
         /\ replicas'[r].alive \subseteq 1 .. replicas'[r].spawned
         /\ Cardinality(replicas'[r].alive) <= 1]_vars

\* A replica whose first task was aborted after a failed renewal runs
\* its second task.
C17_Witness ==
    \E r \in Replicas :
      /\ replicas[r].spawned = 2
      /\ replicas[r].alive = { 2 }
      /\ replicas[r].controller_task = Some(2)

\* ---------------------------------------------------------------- C18
\* Replica a led and held the lease when its calls started to fail.
Failing(a) == replicas[a].failing # None

\* Another replica than a holds the lease and runs its controller task.
TakenOver(a) ==
    \E b \in Replicas \ {a} :
      Leading(b) /\ lease # None /\ lease[1].holder = b

PhaseRank(phase) ==
    CASE phase = "Pending" -> 0
      [] phase = "Starting" -> 1
      [] phase = "Active" -> 2
      [] OTHER -> -1

\* The stored phase of the Strim moves from phase p back to phase q.
MovesBack(name, p, q) ==
    /\ name \in DOMAIN strims /\ name \in DOMAIN strims'
    /\ strims[name].status # None /\ strims'[name].status # None
    /\ strims[name].status[1].phase = p
    /\ strims'[name].status[1].phase = q
    /\ PhaseRank(q) >= 0
    /\ PhaseRank(q) < PhaseRank(p)

\* The step is the status patch of a reconcile of name with this action.
PatchOf(name, action) ==
    \E r \in Replicas :
      PatchStep(r, name) /\ ReconcileOf(r, name).action = action

\* C19: the phase of a Strim only moves forward along Pending, Starting,
\* Active, but for Starting going back to Pending when the pod is deleted
\* for recreation; an Active Strim never goes back to Starting or Pending.
C19_Monotonic ==
    [][\A name \in StrimNames, p, q \in StrimPhases :
         MovesBack(name, p, q) =>
           p = "Starting" /\ q = "Pending" /\ PatchOf(name, DeletePod)]_vars

\* ---------------------------------------------------------------- C20
\* The stored lastUpdated of the Strim, None without a status.
LastUpdated(crs, name) ==
    IF name \in DOMAIN crs /\ crs[name].status # None
    THEN crs[name].status[1].last_updated
    ELSE None

\* C20: a status patch that the API server accepts leaves lastUpdated at
\* the time the patch was built at, which is not after the time on the
\* clock, and no step lowers the stored lastUpdated of a Strim.
C20_LastUpdated ==
    [][\A name \in StrimNames :
         /\ \A r \in Replicas :
              PatchStep(r, name) /\ Patched(r, name) =>
                /\ LastUpdated(strims', name) = ReconcileOf(r, name).now
                /\ ReconcileOf(r, name).now[1] <= clock
         /\ LastUpdated(strims, name) # None
              /\ LastUpdated(strims', name) # None =>
              LastUpdated(strims', name)[1] >= LastUpdated(strims, name)[1]]_vars

\* ---------------------------------------------------------------- C21
InError(instance) ==
    instance.status # None /\ instance.status[1].phase = "Error"

\* The pod is sound for the instance: not being deleted, annotated with
\* the hash of the instance's spec, no container terminated.
Sound(instance, pod) ==
    /\ ~pod.deletion_timestamp
    /\ CarriesHash(pod, hash_spec(instance.spec))
    /\ ~pod.terminated

\* C21: the Error phase is not terminal. For an instance in phase Error
\* with no deletion timestamp and a sound pod, the read phase chooses
\* Starting when the pod is Pending or ContainerCreating and Active when
\* it is Running, and the status patch of that reconcile leaves the
\* stored phase Starting or Active.
C21_ErrorNotTerminal ==
    [][\A r \in Replicas, name \in StrimNames :
         /\ (/\ DetermineStep(r, name)
             /\ InError(ReconcileOf(r, name).instance)
             /\ ~ReconcileOf(r, name).instance.deletion_timestamp
             /\ PodNamed(name)
             /\ Sound(ReconcileOf(r, name).instance, PodOf(name))) =>
              /\ PodOf(name).phase \in { Some("Pending"),
                                          Some("ContainerCreating") } =>
                   Chosen(r, name, StartingAction)
              /\ PodOf(name).phase = Some("Running") =>
                   Chosen(r, name, ActiveAction)
         /\ (/\ PatchStep(r, name)
             /\ InError(ReconcileOf(r, name).instance)
             /\ Patched(r, name)) =>
              /\ ReconcileOf(r, name).action = StartingAction =>
                   strims'[name].status[1].phase = "Starting"
              /\ ReconcileOf(r, name).action = ActiveAction =>
                   strims'[name].status[1].phase = "Active"
    ]_vars

\* A reconcile of an instance in phase Error has chosen Starting for its
\* pending pod and is about to patch the status.
C21_Witness ==
    \E r \in Replicas, name \in StrimNames :
      /\ Reconciling(r, name)
      /\ ReconcileOf(r, name).pc = "write"
      /\ InError(ReconcileOf(r, name).instance)
      /\ ReconcileOf(r, name).action = StartingAction
      /\ strims[name].status[1].phase = "Error"

\* ---------------------------------------------------------------- C22
\* A reconcile of name in replica r returns Err to the controller.
ReconcileFails(r, name) ==
    /\ Reconciling(r, name)
    /\ name \notin DOMAIN replicas'[r].reconciles
    /\ replicas'[r].pc = replicas[r].pc
    /\ replicas'[r].returned # replicas[r].returned
    /\ replicas'[r].returned[name] = "Err"

\* try_acquire_or_renew of replica r comes back with an error.
LeaseCallFails(r) ==
    /\ replicas[r].pc = "acquire"
    /\ replicas[r].result = Some("err")
    /\ replicas'[r].pc # "acquire"

\* C22: a failed reconcile leaves the process and its controller task
\* running, and a failed lease call ends the process.
C22_CrashPolicy ==
    [][\A r \in Replicas :
         /\ \A name \in StrimNames :
              ReconcileFails(r, name) =>
                /\ replicas'[r].alive = replicas[r].alive
                /\ replicas'[r].controller_task = replicas[r].controller_task
                /\ replicas[r].alive # {}
         /\ LeaseCallFails(r) =>
              /\ replicas'[r].pc = "exited"
              /\ replicas'[r].alive = {}
    ]_vars

\* ---------------------------------------------------------------- C23
\* The main loop takes the path at the head of the channel.
RecvStep == uploader.pc = "select" /\ rx # << >> /\ rx' = Tail(rx)

\* upload_to_s3 comes back from a PUT that succeeded.
PutSucceeds ==
    /\ uploader.pc = "put"
    /\ uploader'.log # uploader.log
    /\ uploader'.log[Len(uploader'.log)].kind = "uploaded"

\* upload_to_s3 comes back from a PUT that failed.
PutFails ==
    /\ uploader.pc = "put"
    /\ uploader'.log # uploader.log
    /\ uploader'.log[Len(uploader'.log)].kind = "error"

ExtensionIn(path, exts) == \E e \in exts : extension(path) = Some(<< e >>)

\* The content type the upload policy gives the path.
PolicyType(path) ==
    IF ExtensionIn(path, { "m3u8" }) THEN "application/vnd.apple.mpegurl"
    ELSE IF ExtensionIn(path, { "ts" }) THEN "video/mp2t"
    ELSE IF ExtensionIn(path, { "vtt" }) THEN "text/vtt"
    ELSE "application/octet-stream"

\* C23: every path the loop receives that is a file on disk, not a
\* directory and not a dotfile, is uploaded; the object's key is the key
\* prefix followed by the path below the HLS directory and its content
\* type follows the extension; after the upload a .m3u8 file and a file
\* of any other extension are kept and a .ts or .vtt file is removed.
C23_UploadPolicy ==
    [][/\ (/\ RecvStep
           /\ ~is_dir(Head(rx))
           /\ ~starts_with_dot(Head(rx))
           /\ Head(rx) \in disk) =>
            /\ uploader'.pc = "put"
            /\ uploader'.path = Some(Head(rx))
       /\ PutSucceeds =>
            LET path == uploader.path[1]
                key == << key_prefix >>
                         \o SubSeq(path, Len(hls_dir) + 2, Len(path))
            IN /\ key \in DOMAIN bucket'
               /\ bucket'[key].content_type = PolicyType(path)
               /\ disk' = disk
               /\ IF ExtensionIn(path, { "ts", "vtt" })
                  THEN uploader'.pc = "remove" /\ uploader'.path = Some(path)
                  ELSE uploader'.pc = "select"
       /\ uploader.pc = "remove" /\ uploader'.pc = "select" =>
            uploader.path[1] \notin disk'
    ]_vars

\* ---------------------------------------------------------------- C24
\* C24: a failed PUT leaves the file, the bucket and the queued paths as
\* they are and the loop back in select!; and the uploader removes a
\* file only in the removal that follows the successful PUT of that file.
C24_FailureLocalized ==
    [][/\ PutFails =>
            /\ disk' = disk
            /\ bucket' = bucket
            /\ rx' = rx
            /\ uploader'.pc = "select"
       /\ (uploader' # uploader /\ disk' # disk) =>
            /\ uploader.pc = "remove"
            /\ disk \ disk' = { uploader.path[1] }
            /\ uploader.log[Len(uploader.log)]
                 = LogLine("uploaded", uploader.path[1])
            /\ << key_prefix >> \o SubSeq(uploader.path[1],
                   Len(hls_dir) + 2, Len(uploader.path[1])) \in DOMAIN bucket
    ]_vars

\* After a PUT that failed for a file still on disk, the loop went on and
\* uploaded another path.
C24_Witness ==
    \E i, j \in 1 .. Len(uploader.log) :
      /\ i < j
      /\ uploader.log[i].kind = "error"
      /\ uploader.log[i].path \in disk
      /\ uploader.log[j].kind = "uploaded"
      /\ uploader.log[j].path # uploader.log[i].path

\* ---------------------------------------------------------------- C25
\* C25: once the token is cancelled the main loop starts no upload, also
\* with paths queued, and the only step it takes from select! is to exit.
C25_NoUploadAfterCancel ==
    [][(cancel /\ uploader.pc = "select" /\ uploader' # uploader) =>
          /\ uploader'.pc = "exited"
          /\ rx' = rx]_vars


\* C26. Clean shutdown: once its cancellation token is cancelled, the
\* ingest event loop, the uploader loop and the reconciler outer loop
\* each end, and none of them ends with an error result or a panic.
IngestEnded == event_loop.result # None

UploaderEnded == uploader.pc = "exited"

ReconcilerEnded(r) == replicas[r].pc \in { "exited", "panicked" }

EndedCleanly ==
    /\ event_loop.result # Some("Err")
    /\ ~panicked
    /\ \A r \in Replicas : replicas[r].pc # "panicked"

C26_CleanShutdown ==
    /\ event_loop.cancel ~> IngestEnded
    /\ cancel ~> UploaderEnded
    /\ \A r \in Replicas : replicas[r].cancelled ~> ReconcilerEnded(r)
    /\ []EndedCleanly

\* The three loops do end after cancellation (C26 without its clean-exit
\* half).
C26_Terminates ==
    /\ event_loop.cancel ~> IngestEnded
    /\ cancel ~> UploaderEnded
    /\ \A r \in Replicas : replicas[r].cancelled ~> ReconcilerEnded(r)

\* The uploader loop alone ends without an error or a panic.
C26_UploaderClean == cancel ~> (UploaderEnded /\ uploader.path = None)

\* ---------------------------------------------------------------- C27
\* The rows of the action table that write nothing to the pods, for an
\* instance and the pod of its name, when no row that creates or deletes
\* the pod applies. A status that is missing has no phase, so its phase
\* is neither Starting nor Active.
StatusPhaseIs(instance, phase) ==
    instance.status # None /\ instance.status[1].phase = phase

OlderThan(instance, now, d) ==
    /\ instance.status # None
    /\ instance.status[1].last_updated # None
    /\ now - instance.status[1].last_updated[1] > d

TableRow(instance, pod, now) ==
    IF pod.phase \in { Some("Pending"), Some("ContainerCreating") }
    THEN IF StatusPhaseIs(instance, "Starting") THEN NoOp ELSE StartingAction
    ELSE IF pod.phase = Some("Running")
    THEN IF ~StatusPhaseIs(instance, "Active")
            \/ OlderThan(instance, now, PROBE_INTERVAL)
         THEN ActiveAction
         ELSE NoOp
    ELSE ErrorAction

Deleting(instance, name) ==
    \/ instance.deletion_timestamp
    \/ PodNamed(name) /\ PodOf(name).deletion_timestamp

\* C27: at the end of the read phase, with the cluster API answering,
\* determine_action gives Requeue when the instance or its pod has a
\* deletion timestamp, and otherwise, for a pod that need not be created
\* or deleted, the row of the table: Starting, Active, Error or NoOp.
\* Requeue and NoOp end the reconcile with Ok and write nothing.
C27_ActionTable ==
    [][\A r \in Replicas, name \in StrimNames :
         DetermineStep(r, name) =>
           LET instance == ReconcileOf(r, name).instance
               action == determine_action(instance, get_pod(pods, name),
                                          clock)
           IN /\ Deleting(instance, name) =>
                   /\ action = Requeue
                   /\ Chosen(r, name, Requeue)
                   /\ strims' = strims /\ pods' = pods
              /\ (/\ ~Deleting(instance, name)
                  /\ PodNamed(name)
                  /\ ~MustDelete(instance, PodOf(name))) =>
                   /\ action = TableRow(instance, PodOf(name), clock)
                   /\ Chosen(r, name, action)
                   /\ action = NoOp => strims' = strims /\ pods' = pods
    ]_vars

\* ---------------------------------------------------------------- C28
\* A video keyframe is among the packets bound for the connection.
SentKeyframe(t) ==
    \E i \in 1 .. Len(Outbound(t)) : KeyframePacket(Outbound(t)[i])

\* The step handled an audio packet of the publisher of hist'.last.key.
AudioStep == EventStep("data") /\ hist'.last.arg.data_type = "Audio"

\* C28: when an audio packet of a channel's publisher is handled, a send
\* to a live watcher of the channel is made (the packet is appended for
\* its connection, or the send fails) if and only if a video keyframe
\* has been sent to that watcher before or the packet is an audio
\* sequence header.
C28_AudioAfterKeyframe ==
    [][AudioStep =>
         \A c \in ActiveWatchers(server, hist'.last.key) :
           LET t == server.clients[c].connection_id
           IN (SentTo(t, hist'.last.arg.seq) \/ c \in hist'.last.arg.fails)
                <=> \/ SentKeyframe(t)
                    \/ is_audio_sequence_header(hist'.last.arg.data)
    ]_vars

\* ---------------------------------------------------------------- C29
InsertAt(results, k, result) ==
    SubSeq(results, 1, k) \o << result >> \o SubSeq(results, k + 1, Len(results))

\* An outbound packet for the connection id v.
StalePacket(v) == OutboundPacket(v, Packet("audio", 1, << 175, 0 >>, 0, "abc", 0))

\* The drain loop of handle_read_bytes over the pending results with a
\* packet for v added after the first k of them.
DrainedWith(v, k) ==
    DrainResults([connections |-> connections, w |-> World,
                  closed_tokens |-> {}, panicked |-> FALSE],
                 InsertAt(server_results, k, StalePacket(v)))

\* The packet for v is dropped in silence: the loop does not panic, marks
\* the connections it would mark without the packet and leaves on every
\* connection the packets bound for it, no more.
SilentDrop(v, k) ==
    /\ ~DrainedWith(v, k).panicked
    /\ DrainedWith(v, k).closed_tokens = MarkedForClose(server_results)
    /\ DOMAIN DrainedWith(v, k).connections.slots = DOMAIN connections.slots
    /\ \A t \in DOMAIN connections.slots :
          DrainedWith(v, k).connections.slots[t].queue = Outbound(t)

\* C29: in the drain loop of handle_read_bytes a packet for a connection
\* id that is not in the slab is dropped in silence, wherever it stands
\* among the results; every connection id that a result marks for close
\* is in the slab, and the sweep over the marked ids never removes a
\* vacant key (Slab::remove would panic).
C29_StaleEnqueueAndSweep ==
    /\ ~panicked
    /\ \A i \in 1 .. Len(server_results) :
          server_results[i].type = "DisconnectConnection"
          => server_results[i].connection_id \in DOMAIN connections.slots
    /\ reading # None =>
          \A v \in Tokens \ DOMAIN connections.slots,
             k \in 0 .. Len(server_results) : SilentDrop(v, k)

\* A read is in progress after a connection was removed from the slab:
\* a packet for the removed id would be dropped between a pending packet
\* of a live connection and the result that marks a connection for the
\* sweep.
C29_Witness ==
    /\ reading # None
    /\ Len(server_results) >= 2
    /\ server_results[1].type = "OutboundPacket"
    /\ server_results[2].type = "DisconnectConnection"
    /\ \E v \in Tokens \ DOMAIN connections.slots :
          /\ v < connections.slab.len
          /\ SilentDrop(v, 1)

\* ---------------------------------------------------------------- C30
Classified == classified.class # None

\* C30: a payload is a video sequence header exactly when it has two
\* bytes or more and starts with 0x17 0x00, a video keyframe exactly when
\* it has two bytes or more, starts with 0x17 and its second byte is not
\* 0x00, an audio sequence header exactly when it has two bytes or more
\* and starts with 0xAF 0x00; a payload of less than two bytes is none
\* of these, and none is both video sequence header and keyframe.
C30_Classification ==
    Classified =>
      LET data == classified.data
          class == classified.class[1]
      IN /\ class.video_sequence_header
                <=> (Len(data) >= 2 /\ data[1] = 23 /\ data[2] = 0)
         /\ class.video_keyframe
                <=> (Len(data) >= 2 /\ data[1] = 23 /\ data[2] # 0)
         /\ class.audio_sequence_header
                <=> (Len(data) >= 2 /\ data[1] = 175 /\ data[2] = 0)
         /\ Len(data) < 2 =>
                /\ ~class.video_sequence_header
                /\ ~class.video_keyframe
                /\ ~class.audio_sequence_header
         /\ ~(class.video_sequence_header /\ class.video_keyframe)

\* The payload 0x17 0x00 0x01 was classified: a video sequence header
\* and no keyframe.
C30_Witness ==
    /\ Classified
    /\ classified.data = << 23, 0, 1 >>
    /\ classified.class[1].video_sequence_header
    /\ ~classified.class[1].video_keyframe

StartsPushing ==
    /\ hist'.last.arg.outcome = "accepted"
    /\ hist'.last.arg.app_name = PushApp
    /\ hist'.last.key = PushSourceStream
    /\ server.push_client.state = "Inactive"

StartPushingEmitted == \E i \in 1 .. Len(NewResults) : NewResults[i] = StartPushing

\* C31. StartPushing and the push state: a publish step appends
\* StartPushing and moves the push client from Inactive to
\* WaitingForConnection exactly when the publish is accepted, is for
\* (push_app, push_source_stream) and finds the push client Inactive;
\* any other publish step appends no StartPushing and leaves the push
\* client as it was.
C31_StartPushing ==
    [][EventStep("publish") =>
         IF StartsPushing
         THEN /\ Len(SelectSeq(NewResults, LAMBDA r : r = StartPushing)) = 1
              /\ server'.push_client.state = "WaitingForConnection"
         ELSE /\ ~StartPushingEmitted
              /\ server'.push_client = server.push_client]_vars

\* An accepted publish of (push_app, push_source_stream) has queued
\* StartPushing and the push client waits for its connection.
C31_Witness ==
    /\ hist.last.op = "publish"
    /\ hist.last.arg.outcome = "accepted"
    /\ hist.last.arg.app_name = PushApp
    /\ hist.last.key = PushSourceStream
    /\ \E i \in 1 .. Len(server_results) : server_results[i] = StartPushing
    /\ server.push_client.state = "WaitingForConnection"

\* C32. Accept errors: after a single failed accept on the listening
\* socket the event loop is still running (the process has not
\* panicked and run_server has not returned), so that the connections
\* it holds keep being served.
C32_AcceptErrorSurvived ==
    hist.accept_errors = 1 => (~panicked /\ event_loop.result = None)

WatcherReports == watcher'.events = watcher.events + 1

\* C33. The watcher callback: whenever the watcher is active it can
\* deliver a path without waiting, whatever the channel holds; a
\* delivery appends the path to the channel when the channel has room
\* and otherwise leaves the channel exactly as it was (the path is
\* dropped, the queued paths and their order are unaffected), and it
\* does not touch the upload in progress.
C33_TrySend ==
    /\ [](watcher.watching /\ watcher.events < MaxFileEvents
            => ENABLED FileEvent(UploadScope))
    /\ [][WatcherReports =>
            /\ IF Len(rx) < MaxQueued
               THEN \E path \in UploadScope.paths : rx' = Append(rx, path)
               ELSE rx' = rx
            /\ uploader' = uploader /\ bucket' = bucket]_vars

\* The channel is full and a path reported after it filled up is not in
\* it: nothing was received yet (every file on disk would have been
\* uploaded or logged), and more files were reported than the channel
\* holds.
C33_Witness ==
    /\ Len(rx) = MaxQueued
    /\ Cardinality(disk) > MaxQueued
    /\ \A path \in disk : dispatch(path) # "skip" /\ strip_prefix(path, hls_dir) # None
    /\ uploader = NewUploader
    /\ bucket = EmptyMap

UploadInFlight(up) == up.pc \in {"put", "remove"}

\* C34. Sequential uploads: while a PUT or the removal after it is in
\* progress no path is taken from the channel, so that at most one
\* upload is in flight; the channel changes only by a path appended at
\* its end or by its head being taken, and an upload that starts is the
\* upload of the path that was at the head of the channel: paths are
\* uploaded in the order in which they were enqueued.
C34_SequentialUploads ==
    [][/\ \/ rx' = rx
          \/ \E path \in UploadScope.paths : rx' = Append(rx, path)
          \/ /\ rx # << >>
             /\ rx' = Tail(rx)
             /\ ~UploadInFlight(uploader)
             /\ UploadInFlight(uploader') => uploader'.path = Some(Head(rx))
       /\ UploadInFlight(uploader) =>
            \/ uploader'.path = uploader.path
            \/ ~UploadInFlight(uploader')
       /\ (~UploadInFlight(uploader) /\ UploadInFlight(uploader')) =>
            rx # << >> /\ rx' = Tail(rx)]_vars

\* One upload was completed, the next is in flight and a path waits in
\* the channel behind it.
C34_Witness ==
    /\ uploader.pc = "put"
    /\ rx # << >>
    /\ \E i \in 1 .. Len(uploader.log) : uploader.log[i].kind = "uploaded"

\* C35. Watcher-set consistency: every id in a channel's
\* watching_client_ids is that of a live client whose current action is
\* Watching that channel's stream key.
C35_WatcherSets ==
    \A k \in DOMAIN server.channels :
      \A c \in server.channels[k].watching_client_ids :
        /\ c \in DOMAIN server.clients
        /\ server.clients[c].current_action.type = "Watching"
        /\ server.clients[c].current_action.stream_key = k

\* C36. Publisher consistency: whenever a channel's
\* publishing_client_id names a client, that client is live and its
\* current action is Publishing the channel's stream key.
C36_PublisherConsistent ==
    \A k \in DOMAIN server.channels :
      server.channels[k].publishing_client_id # None =>
        LET c == server.channels[k].publishing_client_id[1]
        IN /\ c \in DOMAIN server.clients
           /\ server.clients[c].current_action = Publishing(k)

TrackedNames(s) == { s.connection_gc[c] : c \in DOMAIN s.connection_gc }

AcceptedNames(s) ==
    { s.connection_gc[c] :
        c \in { t \in DOMAIN s.connection_gc :
                  /\ t \in DOMAIN s.connection_to_client_map
                  /\ s.connection_gc[t][2]
                       \in s.clients[ClientOf(s, t)].session.publishing } }

\* C37. Pipeline tracking: an accepted publish leaves no record
\* untracked: every record name that connection_gc tracks before the
\* step for a connection whose publish of the record's stream key was
\* accepted (the record is to be deleted when that connection closes)
\* is tracked by connection_gc after the step.
C37_RecordsStayTracked ==
    [][(EventStep("publish") /\ hist'.last.arg.outcome = "accepted")
         => AcceptedNames(server) \subseteq TrackedNames(server')]_vars

\* StartPushing is among the results to drain.
StartPushingPending ==
    \E i \in 1 .. Len(server_results) : server_results[i] = StartPushing

\* The handling of StartPushing from the connect on (main.rs 380-389),
\* applied to the connections and the world of a state: the push
\* connection takes the next token of the slab and is registered with
\* the Server. m is [connections, w, panicked] as for CloseConnections.
PushStarted(conns, w) ==
    [ connections |-> ConnInsert(conns, FALSE),
      w |-> [w EXCEPT !.server =
                 register_push_client(@, SlabNextKey(conns.slab))],
      panicked |-> FALSE ]

NeedsKeyframe(p) ==
    \/ InterFramePacket(p)
    \/ p.kind = "audio" /\ ~is_audio_sequence_header(p.data)

\* C39. Keyframe flag per join: among the packets bound for a
\* connection, every video inter-frame and every audio packet that is
\* no sequence header comes after a keyframe of the same stream key,
\* with no play response between the keyframe and the packet: each
\* play request starts with has_received_video_keyframe false.
C39_KeyframePerJoin ==
    \A t \in DOMAIN connections.slots :
      \A i \in 1 .. Len(Outbound(t)) :
        NeedsKeyframe(Outbound(t)[i]) =>
          \E j \in 1 .. (i - 1) :
            /\ KeyframePacket(Outbound(t)[j])
            /\ Outbound(t)[j].key = Outbound(t)[i].key
            /\ \A m \in j .. i : Outbound(t)[m].kind # "play_accepted"

\* The world after the push connection has been made and the push
\* session has had its connection request and its publish request
\* accepted (bytes_received on the push connection, lines 276-306).
PushingWorld ==
    LET started == PushStarted(connections, World).w
        connected == push_bytes_received(started,
                         "ConnectionRequestAccepted", TRUE)
        pushing == push_bytes_received(connected,
                       "PublishRequestAccepted", TRUE)
    IN [pushing EXCEPT !.server_results = << >>]

\* The stream keys for which a session raises media events.
PublishedKeys ==
    UNION { server.clients[c].session.publishing : c \in DOMAIN server.clients }

PushedPacket(r) ==
    r.type = "OutboundPacket" /\ r.packet.kind \in {"push_video", "push_audio"}

====
